---- MODULE Spec2Model ----
(***************************************************************************)
(* A model of the PDF format engine of PDFImage: the byte-level tokenizer  *)
(* (pdf_parser.py), the reader (pdf_read.py) and the writer (pdf_write.py).*)
(* A byte is a string: printable ASCII stands for itself, every other byte *)
(* (and the backquote, x60) is written xHH.  A byte string is a sequence of bytes; Python's 0-based *)
(* indices are kept in the translated code (At, Slice).                     *)
(***************************************************************************)
EXTENDS Integers, Sequences, FiniteSets, TLC

VARIABLES
  tok_input,    \* PDFParser: the bytes handed to the tokenizer
  tok_expect,   \* the value written in tok_input, NoObj when it is raw bytes
  pbs,          \* PDFParser._pbs: the input not yet consumed
  consumers,    \* __iter__: the stack of open containers
  yielded,      \* the values __iter__ has yielded
  tok_last,     \* the last match of _find_parser and the input it was made on
  tok_st,       \* "idle", "run", "done" (the generator returned), "hang", or the exception
  sp_kind,      \* StreamParser.parse: the kind of object it is handed
  sp_length,    \* StreamParser._len
  sp_data,      \* the bytes handed to StreamParser.parse
  sp_result,    \* what parse returned or raised, NotCalled before the call
  w_pages,      \* PDFWriter._pages
  w_objs,       \* PDFWriter._objs
  w_info,       \* PDFWriter._info: the title of the InfoObject
  obj_ids,      \* number and generation of every PDFObject of the writer
  payload,      \* the body of the streams handed to the writer
  w_out,        \* bytes(writer), <<>> once the writer is changed or when it raised
  w_last,       \* the last conversion: its objects in order, and how it ended
  file,         \* PDF._file: the bytes of the file the reader has opened
  r_st,         \* the reader: "closed", "open", or the exception of PDF(file)
  obj_lookup,   \* PDF._obj_lookup
  trailer,      \* PDF._trailer_dictionary
  r_call,       \* the last call made on the open reader
  r_result,     \* what that call returned or raised
  c_op,         \* a single call: the function or method called
  c_arg,        \* the argument of the call
  c_result,     \* what the call returned or raised, NotCalled before it
  ps_source,    \* PullBytesStream._file: the bytes of the wrapped file
  ps_start,     \* the position of the wrapped file when it was wrapped
  ps_pos,       \* PullBytesStream._file.tell()
  ps_buffer,    \* PullBytesStream._buffer
  ps_length,    \* PullBytesStream._length, UNSET for None
  ps_read,      \* the results of read() so far, joined
  ps_last,      \* the last operation on the stream, tell() before it, its result
  lr_file,      \* the bytes of the file a PDFLineReader wraps
  lr_pos,       \* PDFLineReader._file.tell()
  lr_prev,      \* tell() before the last readline()
  lr_lines      \* the lines readline() returned so far, in order

tokVars == <<tok_input, tok_expect, pbs, consumers, yielded, tok_last, tok_st>>

spVars == <<sp_kind, sp_length, sp_data, sp_result>>

writerVars == <<w_pages, w_objs, w_info, obj_ids, payload, w_out, w_last>>

readerVars == <<file, r_st, obj_lookup, trailer, r_call, r_result>>

callVars == <<c_op, c_arg, c_result>>

streamVars == <<ps_source, ps_start, ps_pos, ps_buffer, ps_length, ps_read, ps_last>>

lineVars == <<lr_file, lr_pos, lr_prev, lr_lines>>

vars == <<tokVars, spVars, writerVars, readerVars, callVars, streamVars, lineVars>>

ByteTable ==
  <<
    "x00", "x01", "x02", "x03", "x04", "x05", "x06", "x07",
    "x08", "x09", "x0A", "x0B", "x0C", "x0D", "x0E", "x0F",
    "x10", "x11", "x12", "x13", "x14", "x15", "x16", "x17",
    "x18", "x19", "x1A", "x1B", "x1C", "x1D", "x1E", "x1F",
    " ", "!", "\"", "#", "$", "%", "&", "'",
    "(", ")", "*", "+", ",", "-", ".", "/",
    "0", "1", "2", "3", "4", "5", "6", "7",
    "8", "9", ":", ";", "<", "=", ">", "?",
    "@", "A", "B", "C", "D", "E", "F", "G",
    "H", "I", "J", "K", "L", "M", "N", "O",
    "P", "Q", "R", "S", "T", "U", "V", "W",
    "X", "Y", "Z", "[", "\\", "]", "^", "_",
    "x60", "a", "b", "c", "d", "e", "f", "g",
    "h", "i", "j", "k", "l", "m", "n", "o",
    "p", "q", "r", "s", "t", "u", "v", "w",
    "x", "y", "z", "{", "|", "}", "~", "x7F",
    "x80", "x81", "x82", "x83", "x84", "x85", "x86", "x87",
    "x88", "x89", "x8A", "x8B", "x8C", "x8D", "x8E", "x8F",
    "x90", "x91", "x92", "x93", "x94", "x95", "x96", "x97",
    "x98", "x99", "x9A", "x9B", "x9C", "x9D", "x9E", "x9F",
    "xA0", "xA1", "xA2", "xA3", "xA4", "xA5", "xA6", "xA7",
    "xA8", "xA9", "xAA", "xAB", "xAC", "xAD", "xAE", "xAF",
    "xB0", "xB1", "xB2", "xB3", "xB4", "xB5", "xB6", "xB7",
    "xB8", "xB9", "xBA", "xBB", "xBC", "xBD", "xBE", "xBF",
    "xC0", "xC1", "xC2", "xC3", "xC4", "xC5", "xC6", "xC7",
    "xC8", "xC9", "xCA", "xCB", "xCC", "xCD", "xCE", "xCF",
    "xD0", "xD1", "xD2", "xD3", "xD4", "xD5", "xD6", "xD7",
    "xD8", "xD9", "xDA", "xDB", "xDC", "xDD", "xDE", "xDF",
    "xE0", "xE1", "xE2", "xE3", "xE4", "xE5", "xE6", "xE7",
    "xE8", "xE9", "xEA", "xEB", "xEC", "xED", "xEE", "xEF",
    "xF0", "xF1", "xF2", "xF3", "xF4", "xF5", "xF6", "xF7",
    "xF8", "xF9", "xFA", "xFB", "xFC", "xFD", "xFE", "xFF"
  >>

Chr(n) == ByteTable[n + 1]

Ord(c) == CHOOSE n \in 0..255 : ByteTable[n + 1] = c

NUL == "x00"

HT == "x09"

LF == "x0A"

FF == "x0C"

CR == "x0D"

SP == " "

BS == "x08"

BACKSLASH == "\\"

WHITESPACE == {NUL, HT, LF, FF, CR, SP}

DELIMS == WHITESPACE \cup {"(", ")", "<", ">", "[", "]", "{", "}", "/", "%"}

DIGITS == {"0", "1", "2", "3", "4", "5", "6", "7", "8", "9"}

NUMERICS == DIGITS \cup {".", "+", "-"}

OCT_DIGITS == {"0", "1", "2", "3", "4", "5", "6", "7"}

HEX == DIGITS \cup {"A", "B", "C", "D", "E", "F"}

(* ------------------------------------------------------------------ *)
(* Python's bytes operations.                                          *)

Min(a, b) == IF a < b THEN a ELSE b

Max(a, b) == IF a < b THEN b ELSE a

\* data[i] for 0 <= i < len(data)
At(data, i) == data[i + 1]

\* data[a:b] of a bytes object, 0 <= a
Slice(data, a, b) == SubSeq(data, a + 1, Min(b, Len(data)))

\* data[n:]
Drop(data, n) == SubSeq(data, n + 1, Len(data))

\* the kinds of object a recognizer is handed: a bytes object, or the
\* PullBytesStream of the tokenizer
BYTES == "bytes"

PULLBYTESSTREAM == "PullBytesStream"

\* PullBytesStream.__getitem__ takes max() of the places of a slice: a slice
\* that selects nothing raises ValueError, where bytes gives b""
SliceRaises(kind, data, a, b) == kind = PULLBYTESSTREAM /\ Slice(data, a, b) = <<>>

StartsWith(data, p) == Len(data) >= Len(p) /\ SubSeq(data, 1, Len(p)) = p

RECURSIVE Concat(_)
Concat(ss) == IF ss = <<>> THEN <<>> ELSE Head(ss) \o Concat(Tail(ss))

\* bytes.upper() on one byte
Upper(c) == IF Ord(c) >= 97 /\ Ord(c) <= 122 THEN Chr(Ord(c) - 32) ELSE c

DigitVal(c) == Ord(c) - 48

\* int(text) for a non-empty run of decimal digits
RECURSIVE ParseInt(_)
ParseInt(ds) ==
  IF ds = <<>> THEN 0
  ELSE 10 * ParseInt(SubSeq(ds, 1, Len(ds) - 1)) + DigitVal(ds[Len(ds)])

\* str(n).encode() for n >= 0
RECURSIVE FormatInt(_)
FormatInt(n) ==
  IF n < 10 THEN <<Chr(48 + n)>>
  ELSE FormatInt(n \div 10) \o <<Chr(48 + (n % 10))>>

\* "{:0w}".format(n).encode()
RECURSIVE ZeroPad(_, _)
ZeroPad(ds, w) == IF Len(ds) >= w THEN ds ELSE ZeroPad(<<"0">> \o ds, w)

(* ------------------------------------------------------------------ *)
(* Results of a recognizer: None, (obj, used), (None, used) for a      *)
(* container opener, or a raised exception.                             *)

NoObj == <<"none">>

None == [r |-> "none", obj |-> NoObj, used |-> 0, e |-> ""]

Ok(obj, used) == [r |-> "ok", obj |-> obj, used |-> used, e |-> ""]

Open(kind, used) == [r |-> "open", obj |-> <<"open", kind>>, used |-> used, e |-> ""]

Raise(e) == [r |-> "err", obj |-> NoObj, used |-> 0, e |-> e]

\* no call made yet
NotCalled == [r |-> "pending", obj |-> NoObj, used |-> 0, e |-> ""]

PDFBoolean(b) == <<"bool", b>>

PDFNull == <<"null">>

PDFObjectId(n, g) == <<"ref", n, g>>

PDFString(bs) == <<"str", bs>>

PDFName(bs) == <<"name", bs>>

PDFArray(items) == <<"arr", items>>

PDFRawStream(bs) == <<"rawstream", bs>>

\* the first index of a key among the items of a dictionary, 0 when absent
RECURSIVE KeyIndex(_, _, _)
KeyIndex(items, k, i) ==
  IF i > Len(items) THEN 0
  ELSE IF items[i][1] = k THEN i
  ELSE KeyIndex(items, k, i + 1)

\* dict(items): a later pair with a key already present replaces its value
RECURSIVE DictItems(_, _)
DictItems(acc, items) ==
  IF items = <<>> THEN acc
  ELSE LET kv == Head(items)
           i == KeyIndex(acc, kv[1], 1)
       IN DictItems(IF i = 0 THEN Append(acc, kv) ELSE [acc EXCEPT ![i] = kv],
                    Tail(items))

PDFDictionary(items) == <<"dict", DictItems(<<>>, items)>>

HasKey(d, k) == KeyIndex(d[2], k, 1) # 0

Lookup(d, k) == d[2][KeyIndex(d[2], k, 1)][2]

\* PDFNumeric(text): int(text), else float(text), else ValueError
SignOf(run) == IF run # <<>> /\ run[1] \in {"+", "-"} THEN <<run[1]>> ELSE <<>>

Unsigned(run) == Drop(run, Len(SignOf(run)))

CountOf(run, c) == Cardinality({i \in 1..Len(run) : run[i] = c})

IsIntText(run) ==
  /\ Unsigned(run) # <<>>
  /\ \A i \in 1..Len(Unsigned(run)) : Unsigned(run)[i] \in DIGITS

IsFloatText(run) ==
  /\ \A i \in 1..Len(Unsigned(run)) : Unsigned(run)[i] \in DIGITS \cup {"."}
  /\ CountOf(Unsigned(run), ".") = 1
  /\ Len(Unsigned(run)) >= 2

PDFNumeric(run) ==
  IF IsIntText(run)
  THEN <<"num", IF SignOf(run) = <<"-">> THEN 0 - ParseInt(Unsigned(run))
                ELSE ParseInt(Unsigned(run))>>
  ELSE <<"real", run>>

(* ------------------------------------------------------------------ *)
(* Token recognizers (pdf_parser.py).  data is the unread input.       *)

TRUE_BYTES == <<"t", "r", "u", "e">>

FALSE_BYTES == <<"f", "a", "l", "s", "e">>

NULL_BYTES == <<"n", "u", "l", "l">>

STREAM_BYTES == <<"s", "t", "r", "e", "a", "m">>

ENDSTREAM_BYTES == <<"e", "n", "d", "s", "t", "r", "e", "a", "m">>

ENDOBJ_BYTES == <<"e", "n", "d", "o", "b", "j">>

RECURSIVE length_suffix_whitespace(_, _)
length_suffix_whitespace(data, index) ==
  IF Len(data) <= index THEN index
  ELSE IF At(data, index) \notin WHITESPACE THEN index
  ELSE length_suffix_whitespace(data, index + 1)

\* PullBytesStream.skip_whitespace: the input left after the whitespace
skip_whitespace(data) == Drop(data, length_suffix_whitespace(data, 0))

at_eol_marker(data, index) ==
  IF Len(data) > index /\ Slice(data, index, index + 1) = <<LF>> THEN 1
  ELSE IF Len(data) > index + 1 /\ Slice(data, index, index + 2) = <<CR, LF>> THEN 2
  ELSE IF Len(data) > index /\ Slice(data, index, index + 1) = <<CR>> THEN 1
  ELSE 0

BooleanParser(data) ==
  IF /\ Len(data) >= 4
     /\ Slice(data, 0, 4) = TRUE_BYTES
     /\ (Len(data) = 4 \/ At(data, 4) \in DELIMS)
  THEN Ok(PDFBoolean(TRUE), 4)
  ELSE IF /\ Len(data) >= 5
          /\ Slice(data, 0, 5) = FALSE_BYTES
          /\ (Len(data) = 5 \/ At(data, 5) \in DELIMS)
  THEN Ok(PDFBoolean(FALSE), 5)
  ELSE None

\* the end of the run of bytes of the set cs that starts at index
RECURSIVE RunEnd(_, _, _)
RunEnd(data, index, cs) ==
  IF index < Len(data) /\ At(data, index) \in cs
  THEN RunEnd(data, index + 1, cs)
  ELSE index

NumericParser_Partial(data) ==
  LET index == RunEnd(data, 0, NUMERICS)
      run == Slice(data, 0, index)
  IN IF index = 0 THEN None
     ELSE IF IsIntText(run) \/ IsFloatText(run)
     THEN Ok(PDFNumeric(run), index)
     ELSE Raise("ParseError")

NumericParser(data) ==
  LET index == RunEnd(data, 0, NUMERICS)
      run == Slice(data, 0, index)
  IN IF index = 0 THEN None
     ELSE IF index < Len(data) /\ At(data, index) \notin DELIMS
     THEN Raise("ParseError")
     ELSE IF IsIntText(run) \/ IsFloatText(run)
     THEN Ok(PDFNumeric(run), index)
     ELSE Raise("ParseError")

OctalValue(ds) ==
  IF Len(ds) = 1 THEN DigitVal(ds[1])
  ELSE IF Len(ds) = 2 THEN 8 * DigitVal(ds[1]) + DigitVal(ds[2])
  ELSE 64 * DigitVal(ds[1]) + 8 * DigitVal(ds[2]) + DigitVal(ds[3])

EscapeOf_Literal(c) == c

\* the named escapes of a literal string: the byte after the backslash
EscapeOf(c) ==
  CASE c = "n" -> LF
    [] c = "r" -> CR
    [] c = "t" -> HT
    [] c = "b" -> BS
    [] c = "f" -> FF
    [] OTHER -> c

\* the test after the loop of StringParser.parse: data[index:index+1] != b")"
StringEnd(kind, data, index, out) ==
  IF SliceRaises(kind, data, index, index + 1) THEN Raise("ValueError")
  ELSE IF Slice(data, index, index + 1) # <<")">> THEN Raise("ParseError")
  ELSE Ok(PDFString(out), index + 1)

RECURSIVE StringLoop(_, _, _, _)
StringLoop(kind, data, index, out) ==
  LET Finish == StringEnd(kind, data, index, out)
  IN IF index >= Len(data) THEN Finish
     ELSE LET ch == At(data, index) IN
       IF ch = ")" THEN Finish
       ELSE IF ch = LF \/ ch = CR THEN
         IF index + 1 < Len(data) /\ Slice(data, index, index + 2) = <<CR, LF>>
         THEN StringLoop(kind, data, index + 2, Append(out, LF))
         ELSE StringLoop(kind, data, index + 1, Append(out, LF))
       ELSE IF ch = BACKSLASH THEN
         IF index + 1 = Len(data) THEN Raise("ParseError")
         ELSE LET c2 == At(data, index + 1) IN
           IF c2 = LF \/ c2 = CR THEN
             IF c2 = CR /\ index + 2 < Len(data) /\ At(data, index + 2) = LF
             THEN StringLoop(kind, data, index + 3, out)
             ELSE StringLoop(kind, data, index + 2, out)
           ELSE IF c2 \in {"n", "r", "t", "b", "f", "(", ")", BACKSLASH}
           THEN StringLoop(kind, data, index + 2, Append(out, EscapeOf(c2)))
           ELSE IF c2 \in OCT_DIGITS THEN
             LET i == Min(RunEnd(data, index + 1, OCT_DIGITS), index + 4)
                 decimal == OctalValue(Slice(data, index + 1, i))
             IN IF decimal >= 256 THEN Raise("ParseError")
                ELSE StringLoop(kind, data, i, Append(out, Chr(decimal)))
           ELSE StringLoop(kind, data, index + 1, out)
       ELSE StringLoop(kind, data, index + 1, Append(out, ch))

StringParser(kind, data) ==
  IF Slice(data, 0, 1) # <<"(">> THEN None ELSE StringLoop(kind, data, 1, <<>>)

HexDigit(c) == IF Upper(c) \in DIGITS THEN DigitVal(Upper(c)) ELSE Ord(Upper(c)) - 55

\* HexStringParser._hex_to_bytes on two bytes; -1 stands for its ParseError
hex_to_bytes(pair) ==
  IF \E i \in 1..Len(pair) : Upper(pair[i]) \notin HEX THEN -1
  ELSE IF Len(pair) = 1 THEN HexDigit(pair[1])
  ELSE 16 * HexDigit(pair[1]) + HexDigit(pair[2])

RECURSIVE HexLoop(_, _, _, _)
HexLoop(data, index, out, pair) ==
  IF index >= Len(data) THEN Raise("ParseError")
  ELSE LET ch == At(data, index) IN
    IF ch = ">" THEN
      Ok(PDFString(IF Len(pair) = 1
                   THEN Append(out, Chr(hex_to_bytes(pair \o <<"0">>)))
                   ELSE out),
         index + 1)
    ELSE IF ch \in WHITESPACE THEN HexLoop(data, index + 1, out, pair)
    ELSE IF Upper(ch) \in HEX THEN
      IF Len(pair) = 1
      THEN HexLoop(data, index + 1, Append(out, Chr(hex_to_bytes(Append(pair, ch)))), <<>>)
      ELSE HexLoop(data, index + 1, out, <<ch>>)
    ELSE Raise("ParseError")

HexStringParser(data) ==
  IF Slice(data, 0, 1) # <<"<">> THEN None ELSE HexLoop(data, 1, <<>>, <<>>)

RECURSIVE NameLoop(_, _, _)
NameLoop(data, index, out) ==
  IF index >= Len(data) THEN Ok(PDFName(out), index)
  ELSE LET ch == At(data, index) IN
    IF ch \in DELIMS THEN Ok(PDFName(out), index)
    ELSE IF ch = "#" THEN
      IF index + 2 >= Len(data) THEN Raise("ParseError")
      ELSE IF hex_to_bytes(Slice(data, index + 1, index + 3)) < 0
      THEN Raise("ParseError")
      ELSE NameLoop(data, index + 3,
                    Append(out, Chr(hex_to_bytes(Slice(data, index + 1, index + 3)))))
    ELSE NameLoop(data, index + 1, Append(out, ch))

ParseName(data) ==
  IF Slice(data, 0, 1) # <<"/">> THEN None ELSE NameLoop(data, 1, <<>>)

ParseNull(data) ==
  IF Len(data) < 4 THEN None
  ELSE IF Slice(data, 0, 4) # NULL_BYTES THEN None
  ELSE IF Len(data) > 4 /\ At(data, 4) \notin DELIMS THEN None
  ELSE Ok(PDFNull, 4)

\* ParseObjectId._parse_number: None, (number, index + 1), or the ValueError
\* of int("") when no digit precedes the whitespace byte
parse_number(data, index) ==
  LET e == RunEnd(data, index, DIGITS) IN
  IF e = Len(data) THEN None
  ELSE IF At(data, e) \notin WHITESPACE THEN None
  ELSE IF e = index THEN Raise("ValueError")
  ELSE Ok(ParseInt(Slice(data, index, e)), e + 1)

ParseObjectId(data) ==
  LET idnum == parse_number(data, 0) IN
  IF idnum.r # "ok" THEN idnum
  ELSE LET gennum == parse_number(data, idnum.used) IN
    IF gennum.r # "ok" THEN gennum
    ELSE LET index == gennum.used IN
      IF index + 1 >= Len(data) THEN None
      ELSE IF At(data, index) = "R" /\ At(data, index + 1) \in DELIMS
      THEN Ok(PDFObjectId(idnum.obj, gennum.obj), index + 1)
      ELSE None

ParseArray(data) ==
  IF Len(data) > 0 /\ Slice(data, 0, 1) = <<"[">> THEN Open("arr", 1) ELSE None

ParseDictionary(data) ==
  IF Len(data) > 1 /\ Slice(data, 0, 2) = <<"<", "<">> THEN Open("dict", 2) ELSE None

\* a StreamParser that insists on an end-of-line marker before endstream
StreamParser_EolRequired(kind, length, data) ==
  IF Len(data) < 6 \/ Slice(data, 0, 6) # STREAM_BYTES THEN None
  ELSE LET have_lf == Len(data) >= 7 /\ Slice(data, 6, 7) = <<LF>>
           have_cr_lf == Len(data) >= 8 /\ Slice(data, 6, 8) = <<CR, LF>>
       IN IF ~(have_lf \/ have_cr_lf) THEN None
          ELSE LET index == IF have_lf THEN 7 ELSE 8
                   expected_end == index + length
                   eolbytes == at_eol_marker(data, expected_end)
               IN IF expected_end > Len(data) THEN Raise("ParseError")
                  ELSE IF SliceRaises(kind, data, index, expected_end)
                  THEN Raise("ValueError")
                  ELSE IF eolbytes = 0 THEN Raise("ParseError")
                  ELSE IF expected_end + eolbytes + 9 > Len(data)
                  THEN Raise("ParseError")
                  ELSE IF Slice(data, expected_end + eolbytes,
                                expected_end + eolbytes + 9) # ENDSTREAM_BYTES
                  THEN Raise("ParseError")
                  ELSE Ok(PDFRawStream(Slice(data, index, expected_end)),
                          expected_end + eolbytes + 9)

\* StreamParser(length).parse(data)
StreamParser(kind, length, data) ==
  IF Len(data) < 6 \/ Slice(data, 0, 6) # STREAM_BYTES THEN None
  ELSE LET have_lf == Len(data) >= 7 /\ Slice(data, 6, 7) = <<LF>>
           have_cr_lf == Len(data) >= 8 /\ Slice(data, 6, 8) = <<CR, LF>>
       IN IF ~(have_lf \/ have_cr_lf) THEN None
          ELSE LET index == IF have_lf THEN 7 ELSE 8
                   expected_end == index + length
                   eolbytes == at_eol_marker(data, expected_end)
               IN IF expected_end > Len(data) THEN Raise("ParseError")
                  ELSE IF SliceRaises(kind, data, index, expected_end)
                  THEN Raise("ValueError")
                  ELSE IF expected_end + eolbytes + 9 > Len(data)
                  THEN Raise("ParseError")
                  ELSE IF Slice(data, expected_end + eolbytes,
                                expected_end + eolbytes + 9) # ENDSTREAM_BYTES
                  THEN Raise("ParseError")
                  ELSE Ok(PDFRawStream(Slice(data, index, expected_end)),
                          expected_end + eolbytes + 9)

(* ------------------------------------------------------------------ *)
(* Consumers and the tokenizer loop PDFParser.__iter__.                *)

ArrayConsumer == [kind |-> "arr", items |-> <<>>, key |-> <<>>]

DictionaryConsumer == [kind |-> "dict", items |-> <<>>, key |-> <<>>]

\* Parser.consumer() of the recognizer that opened the container
NewConsumer(kind) == IF kind = "arr" THEN ArrayConsumer ELSE DictionaryConsumer

consume(c, obj) ==
  IF c.kind = "arr" THEN [c EXCEPT !.items = Append(@, obj)]
  ELSE IF c.key = <<>> THEN [c EXCEPT !.key = <<obj>>]
  ELSE [c EXCEPT !.items = Append(@, <<c.key[1], obj>>), !.key = <<>>]

\* Consumer.end: the bytes of the closing delimiter, -1 for None
consumer_end(c, data) ==
  IF c.kind = "arr"
  THEN IF Len(data) > 0 /\ Slice(data, 0, 1) = <<"]">> THEN 1 ELSE -1
  ELSE IF Len(data) > 1 /\ Slice(data, 0, 2) = <<">", ">">> THEN 2 ELSE -1

build(c) == IF c.kind = "arr" THEN PDFArray(c.items) ELSE PDFDictionary(c.items)

Front(s) == SubSeq(s, 1, Len(s) - 1)

Last(s) == s[Len(s)]

ParserOrder_NumericFirst ==
  <<"BooleanParser", "NumericParser", "ParseObjectId", "StringParser",
    "ParseDictionary", "HexStringParser", "ParseName", "ParseNull", "ParseArray">>

\* PDFParser._parsers
ParserOrder ==
  <<"BooleanParser", "ParseObjectId", "NumericParser", "StringParser",
    "ParseDictionary", "HexStringParser", "ParseName", "ParseNull", "ParseArray">>

RunParser(p, data) ==
  CASE p = "BooleanParser" -> BooleanParser(data)
    [] p = "ParseObjectId" -> ParseObjectId(data)
    [] p = "NumericParser" -> NumericParser(data)
    [] p = "StringParser" -> StringParser(PULLBYTESSTREAM, data)
    [] p = "ParseDictionary" -> ParseDictionary(data)
    [] p = "HexStringParser" -> HexStringParser(data)
    [] p = "ParseName" -> ParseName(data)
    [] p = "ParseNull" -> ParseNull(data)
    [] p = "ParseArray" -> ParseArray(data)

RECURSIVE find_parser_from(_, _)
find_parser_from(i, data) ==
  IF i > Len(ParserOrder) THEN None
  ELSE LET result == RunParser(ParserOrder[i], data) IN
    IF result.r = "none" THEN find_parser_from(i + 1, data) ELSE result

find_parser(data) == find_parser_from(1, data)

\* __iter__, the loop taken when no recognizer matches: close the open
\* containers whose closing delimiter is next; a container whose delimiter is
\* not next makes the loop spin for ever
RECURSIVE CloseLoop(_, _, _)
CloseLoop(cs, data, obj) ==
  IF cs = <<>> THEN [cs |-> cs, pbs |-> data, obj |-> obj, hang |-> FALSE]
  ELSE LET used == consumer_end(Last(cs), data) IN
    IF used >= 0 THEN CloseLoop(Front(cs), Drop(data, used), build(Last(cs)))
    ELSE [cs |-> cs, pbs |-> data, obj |-> obj, hang |-> TRUE]

\* __iter__, the loop that routes a value to the open containers
RECURSIVE FeedLoop(_, _, _)
FeedLoop(cs, data, obj) ==
  IF cs = <<>> THEN [cs |-> cs, pbs |-> data, obj |-> obj, hang |-> FALSE]
  ELSE LET top == consume(Last(cs), obj)
           d1 == skip_whitespace(data)
           used == consumer_end(top, d1)
       IN IF used >= 0 THEN FeedLoop(Front(cs), Drop(d1, used), build(top))
          ELSE [cs |-> Append(Front(cs), top), pbs |-> d1, obj |-> NoObj,
                hang |-> FALSE]

\* what a pass of __iter__ found: its branch, the input it looked at
\* (whitespace skipped), the result of _find_parser, and the open containers
\* and yielded values before it
NoMatch ==
  [branch |-> "", before |-> <<>>, obj |-> NoObj, used |-> 0, depth |-> 0, nyield |-> 0]

\* the branch a pass takes on the input data when _find_parser gives fp
BranchOf(data, fp) ==
  IF Len(data) = 0 THEN "return"
  ELSE CASE fp.r = "err" -> "raise"
         [] fp.r = "none" -> "close"
         [] fp.r = "open" -> "open"
         [] OTHER -> "value"

PassRecord(tk, data, fp) ==
  [branch |-> BranchOf(data, fp),
   before |-> data,
   obj |-> IF fp.r = "err" THEN <<"raise", fp.e>> ELSE fp.obj,
   used |-> fp.used, depth |-> Len(tk.consumers), nyield |-> Len(tk.yielded)]

\* the generator after closing containers (res) when no recognizer matched
AfterClose(tk, res, rec) ==
  [tk EXCEPT !.pbs = res.pbs, !.consumers = res.cs,
             !.yielded = IF ~res.hang /\ res.obj # NoObj THEN Append(@, res.obj) ELSE @,
             !.st = IF res.hang THEN "hang"
                    ELSE IF res.obj # NoObj THEN "run" ELSE "done",
             !.last = rec]

\* the generator after routing a value to the open containers (res)
AfterFeed(tk, res, rec) ==
  [tk EXCEPT !.pbs = res.pbs, !.consumers = res.cs,
             !.yielded = IF res.obj # NoObj THEN Append(@, res.obj) ELSE @,
             !.last = rec]

\* the rest of a pass once the whitespace is skipped and _find_parser has run
PassFound(tk, data, fp, rec) ==
  CASE rec.branch = "return" -> [tk EXCEPT !.pbs = data, !.st = "done", !.last = rec]
    [] rec.branch = "raise" -> [tk EXCEPT !.pbs = data, !.st = fp.e, !.last = rec]
    [] rec.branch = "close" -> AfterClose(tk, CloseLoop(tk.consumers, data, NoObj), rec)
    [] rec.branch = "open" ->
         [tk EXCEPT !.pbs = Drop(data, fp.used),
                    !.consumers = Append(@, NewConsumer(fp.obj[2])),
                    !.last = rec]
    [] OTHER -> AfterFeed(tk, FeedLoop(tk.consumers, Drop(data, fp.used), fp.obj), rec)

PassOn(tk, data, fp) == PassFound(tk, data, fp, PassRecord(tk, data, fp))

PassAt(tk, data) == PassOn(tk, data, IF Len(data) = 0 THEN None ELSE find_parser(data))

\* one pass of the while loop of __iter__ on the state tk of the generator
IterStep(tk) == PassAt(tk, skip_whitespace(tk.pbs))

\* PDFParser(file): the generator before its first pass
NewParser(data) ==
  [pbs |-> data, consumers |-> <<>>, yielded |-> <<>>, last |-> NoMatch, st |-> "run"]

\* list(PDFParser(file)): the passes run until the generator ends
RECURSIVE RunParserLoop(_)
RunParserLoop(tk) == IF tk.st # "run" THEN tk ELSE RunParserLoop(IterStep(tk))

ListParser(data) == RunParserLoop(NewParser(data))

(* ------------------------------------------------------------------ *)
(* The byte form of a value (bytes(value)).                            *)

HexChars == <<"0", "1", "2", "3", "4", "5", "6", "7", "8", "9",
              "A", "B", "C", "D", "E", "F">>

NameByte(c) ==
  IF Ord(c) >= 33 /\ Ord(c) <= 126 /\ c \notin DELIMS THEN <<c>>
  ELSE <<"#", HexChars[(Ord(c) \div 16) + 1], HexChars[(Ord(c) % 16) + 1]>>

StringByte(c) ==
  CASE c = "(" -> <<BACKSLASH, "(">>
    [] c = ")" -> <<BACKSLASH, ")">>
    [] c = BACKSLASH -> <<BACKSLASH, BACKSLASH>>
    [] c = LF -> <<BACKSLASH, "n">>
    [] c = CR -> <<BACKSLASH, "r">>
    [] c = HT -> <<BACKSLASH, "t">>
    [] c = BS -> <<BACKSLASH, "b">>
    [] c = FF -> <<BACKSLASH, "f">>
    [] OTHER -> <<c>>

RECURSIVE JoinWith(_, _)
JoinWith(parts, sep) ==
  IF parts = <<>> THEN <<>>
  ELSE IF Len(parts) = 1 THEN parts[1]
  ELSE parts[1] \o sep \o JoinWith(Tail(parts), sep)

FormatNum(n) == IF n < 0 THEN <<"-">> \o FormatInt(0 - n) ELSE FormatInt(n)

\* nums gives the number and generation of the indirect objects of the writer
RECURSIVE ToBytes(_, _)
ToBytes(v, nums) ==
  CASE v[1] = "bool" -> IF v[2] THEN TRUE_BYTES ELSE FALSE_BYTES
    [] v[1] = "num" -> FormatNum(v[2])
    [] v[1] = "real" -> v[2]
    [] v[1] = "null" -> NULL_BYTES
    [] v[1] = "name" -> <<"/">> \o Concat([i \in 1..Len(v[2]) |-> NameByte(v[2][i])])
    [] v[1] = "str" ->
         <<"(">> \o Concat([i \in 1..Len(v[2]) |-> StringByte(v[2][i])]) \o <<")">>
    [] v[1] = "ref" -> FormatInt(v[2]) \o <<SP>> \o FormatInt(v[3]) \o <<SP, "R">>
    [] v[1] = "obj" ->
         FormatInt(nums[v[2]].number) \o <<SP>> \o FormatInt(nums[v[2]].generation)
           \o <<SP, "R">>
    [] v[1] = "arr" ->
         <<"[">> \o JoinWith([i \in 1..Len(v[2]) |-> ToBytes(v[2][i], nums)], <<SP>>)
           \o <<"]">>
    [] v[1] = "dict" ->
         <<"<", "<">>
           \o JoinWith([i \in 1..Len(v[2]) |->
                          ToBytes(v[2][i][1], nums) \o <<SP>> \o ToBytes(v[2][i][2], nums)],
                       <<SP>>)
           \o <<">", ">">>
    [] v[1] = "stream" ->
         ToBytes(<<"dict", v[2]>>, nums) \o <<LF>> \o STREAM_BYTES \o <<LF>> \o v[3]
           \o <<LF>> \o ENDSTREAM_BYTES

NoNums == <<>>

(* ------------------------------------------------------------------ *)
(* The inputs of the tokenizer.                                        *)

MaxWidth == 2

MaxRawLen == 3

SeqsUpTo(S, n) == UNION {[1..k -> S] : k \in 0..n}

Leaves == {<<"num", 1>>, PDFName(<<"a">>)}

Key(i) == PDFName(<<"k", Chr(48 + i)>>)

Arrays(E) == {PDFArray(s) : s \in SeqsUpTo(E, MaxWidth)}

Dicts(E) ==
  {<<"dict", [i \in 1..Len(s) |-> <<Key(i), s[i]>>]>> : s \in SeqsUpTo(E, MaxWidth)}

InnerContainers == Arrays({<<"num", 1>>}) \cup Dicts({<<"num", 1>>})

NestedContainers ==
  Arrays(Leaves \cup InnerContainers) \cup Dicts(Leaves \cup InnerContainers)

ContainerFixtures ==
  {[text |-> ToBytes(v, NoNums), expect |-> v] : v \in NestedContainers}

RefPrefixes == {<<>>, <<"[">>, <<"<", "<", "/", "a", SP>>}

RefTails ==
  {<<SP>>, <<"]">>, <<">", ">">>, <<"/", "a">>, <<"<", "<", ">", ">">>, <<LF, "1">>,
   <<"R">>, <<>>}

RefFixtures ==
  {[text |-> p \o n \o <<w1>> \o g \o <<w2>> \o <<"R">> \o t, expect |-> NoObj] :
     p \in RefPrefixes, n \in {<<"1">>, <<"1", "2">>}, w1 \in {SP, LF},
     g \in {<<"0">>, <<"7">>}, w2 \in {SP, LF}, t \in RefTails}

RawAlphabet == {"[", "]", "<", ">", "/", "a", "1", SP, "R", "("}

RawFixtures ==
  {[text |-> s, expect |-> NoObj] : s \in SeqsUpTo(RawAlphabet, MaxRawLen)}

\* the values that hold no other value
Scalars ==
  {PDFBoolean(TRUE), <<"num", -12>>, <<"real", <<"1", ".", "5">>>>, PDFString(<<"a", ")">>),
   PDFName(<<"N">>), PDFName(<<"#">>), PDFNull, PDFObjectId(3, 0)}

DictKeys == {PDFName(<<"a">>), PDFName(<<"b", SP>>), PDFName(<<"#", "4", "1">>)}

\* the dictionaries of up to MaxWidth entries with Name keys and scalar values
ScalarDicts ==
  {<<"dict", [i \in 1..Len(ks) |-> <<ks[i], vs[i]>>]>> :
     <<ks, vs>> \in {kv \in SeqsUpTo(DictKeys, MaxWidth) \X SeqsUpTo(Scalars, MaxWidth) :
                      /\ Len(kv[1]) = Len(kv[2])
                      /\ \A i, j \in 1..Len(kv[1]) : i # j => kv[1][i] # kv[1][j]}}

ScalarDictFixtures == {[text |-> ToBytes(d, NoNums), expect |-> d] : d \in ScalarDicts}

\* `<<`, an odd number of values, `>>`
OddDictTexts ==
  {<<"<", "<">> \o JoinWith([i \in 1..Len(vs) |-> ToBytes(vs[i], NoNums)], <<SP>>)
     \o <<">", ">">> :
     vs \in {s \in SeqsUpTo(Leaves, 2 * MaxWidth - 1) : Len(s) % 2 = 1}}

OddDictFixtures == {[text |-> t, expect |-> NoObj] : t \in OddDictTexts}

TokFixtures ==
  ContainerFixtures \cup RefFixtures \cup RawFixtures \cup ScalarDictFixtures
    \cup OddDictFixtures

(* ------------------------------------------------------------------ *)
(* The tokenizer as a state machine: one action per pass of __iter__.  *)

TokState ==
  [pbs |-> pbs, consumers |-> consumers, yielded |-> yielded, last |-> tok_last,
   st |-> tok_st]

\* the variables of the parts that a specification leaves alone
IdleTok ==
  /\ tok_input = <<>>
  /\ tok_expect = NoObj
  /\ pbs = <<>>
  /\ consumers = <<>>
  /\ yielded = <<>>
  /\ tok_last = NoMatch
  /\ tok_st = "idle"

IdleStream ==
  /\ sp_kind = BYTES
  /\ sp_length = 0
  /\ sp_data = <<>>
  /\ sp_result = NotCalled

IdleWriter ==
  /\ w_pages = <<>>
  /\ w_objs = <<>>
  /\ w_info = <<>>
  /\ obj_ids = <<>>
  /\ payload = <<>>
  /\ w_out = <<>>
  /\ w_last = <<>>

IdleReader ==
  /\ file = <<>>
  /\ r_st = "closed"
  /\ obj_lookup = <<>>
  /\ trailer = NoObj
  /\ r_call = <<>>
  /\ r_result = [r |-> "pending", obj |-> NoObj, e |-> ""]

IdleCall ==
  /\ c_op = ""
  /\ c_arg = <<>>
  /\ c_result = NotCalled

IdlePullBytesStream ==
  /\ ps_source = <<>>
  /\ ps_start = 0
  /\ ps_pos = 0
  /\ ps_buffer = <<>>
  /\ ps_length = 0
  /\ ps_read = <<>>
  /\ ps_last = <<>>

IdleLine ==
  /\ lr_file = <<>>
  /\ lr_pos = 0
  /\ lr_prev = 0
  /\ lr_lines = <<>>

IdleOthers == IdleCall /\ IdlePullBytesStream /\ IdleLine

InitTok ==
  /\ IdleOthers
  /\ IdleStream
  /\ IdleWriter
  /\ IdleReader
  /\ \E f \in TokFixtures :
       /\ tok_input = f.text
       /\ tok_expect = f.expect
       /\ pbs = f.text
       /\ consumers = <<>>
       /\ yielded = <<>>
       /\ tok_last = NoMatch
       /\ tok_st = "run"

TokSet(n) ==
  /\ pbs' = n.pbs
  /\ consumers' = n.consumers
  /\ yielded' = n.yielded
  /\ tok_last' = n.last
  /\ tok_st' = n.st
  /\ UNCHANGED <<tok_input, tok_expect, spVars, writerVars, readerVars, callVars, streamVars, lineVars>>

TokTake(branch, n) == n.last.branch = branch /\ TokSet(n)

\* the input is exhausted: the generator returns
TokReturn == tok_st = "run" /\ TokTake("return", IterStep(TokState))

\* a recognizer raises
TokRaise == tok_st = "run" /\ TokTake("raise", IterStep(TokState))

\* no recognizer matches: the open containers are closed
TokClose == tok_st = "run" /\ TokTake("close", IterStep(TokState))

\* a container opener: its consumer is pushed
TokOpen == tok_st = "run" /\ TokTake("open", IterStep(TokState))

\* a value: it is routed to the open containers or yielded
TokValue == tok_st = "run" /\ TokTake("value", IterStep(TokState))

NextTok == TokReturn \/ TokRaise \/ TokClose \/ TokOpen \/ TokValue

SpecTok == InitTok /\ [][NextTok]_vars

(* ------------------------------------------------------------------ *)
(* Stream completion: StreamParser(length).parse on a bytes object, as  *)
(* the tests call it, and on a PullBytesStream, as PDF.read_stream does.*)

MaxBody == 2

MaxLength == 3

StreamOpenings == {<<LF>>, <<CR, LF>>, <<CR>>}

StreamBodies == SeqsUpTo({"a", LF}, MaxBody)

StreamSeparators == {<<>>, <<LF>>, <<CR>>, <<CR, LF>>, <<SP>>}

StreamEndings ==
  {ENDSTREAM_BYTES, ENDSTREAM_BYTES \o <<"<", "<">>, Front(ENDSTREAM_BYTES),
   Front(ENDSTREAM_BYTES) \o <<"x">>}

StreamFixtures ==
  {STREAM_BYTES \o o \o b \o s \o e :
     o \in StreamOpenings, b \in StreamBodies, s \in StreamSeparators,
     e \in StreamEndings}

InitStream ==
  /\ IdleOthers
  /\ IdleTok
  /\ IdleWriter
  /\ IdleReader
  /\ sp_kind = BYTES
  /\ sp_length \in 0..MaxLength
  /\ sp_data \in StreamFixtures
  /\ sp_result = NotCalled

StreamCall(kind) ==
  /\ sp_kind' = kind
  /\ sp_result' = StreamParser(kind, sp_length, sp_data)
  /\ UNCHANGED <<sp_length, sp_data, tokVars, writerVars, readerVars, callVars, streamVars, lineVars>>

\* StreamParser(length).parse(data) on bytes
ParseBytes == sp_result = NotCalled /\ StreamCall(BYTES)

\* StreamParser(length).parse(PullBytesStream(file)), the call of read_stream
ParsePull == sp_result = NotCalled /\ StreamCall(PULLBYTESSTREAM)

NextStream == ParseBytes \/ ParsePull

SpecStream == InitStream /\ [][NextStream]_vars

(* ------------------------------------------------------------------ *)
(* The writer (pdf_write.py).  A PDFObject is named by an identity; its *)
(* number and generation are in obj_ids, -1 standing for None.          *)

Str(text) == PDFString(text)

CATALOG == "catalog"

TREE == "tree"

INFO == "info"

PageIds == {"page1", "page2"}

AuxIds == {"len", "istream"}

AllIds == {CATALOG, TREE, INFO} \cup PageIds \cup AuxIds

Unnumbered == [number |-> -1, generation |-> -1]

\* a reference to the PDFObject with identity id
Obj(id) == <<"obj", id>>

Num(n) == <<"num", n>>

Name(text) == PDFName(text)

\* Rectangle.__call__
Rectangle(xmin, ymin, xmax, ymax) == PDFArray(<<Num(xmin), Num(ymin), Num(xmax), Num(ymax)>>)

\* the pages handed to add_page: mediabox, resources and contents
PageMediabox(p) == IF p = "page1" THEN Rectangle(0, 1, 20, 50) ELSE Rectangle(0, 0, 612, 792)

PageResources(p) == PDFDictionary(<< <<Name(<<"M", "a", "t", "t">>), Num(7)>> >>)

PageContents(p) == IF p = "page1" THEN PDFObjectId(3, 2) ELSE Obj("len")

\* Page.object: the dictionary of a page whose parent is the page tree
Page(p) ==
  PDFDictionary(<<
    <<Name(<<"T", "y", "p", "e">>), Name(<<"P", "a", "g", "e">>)>>,
    <<Name(<<"P", "a", "r", "e", "n", "t">>), Obj(TREE)>>,
    <<Name(<<"R", "e", "s", "o", "u", "r", "c", "e", "s">>), PageResources(p)>>,
    <<Name(<<"M", "e", "d", "i", "a", "B", "o", "x">>), PageMediabox(p)>>,
    <<Name(<<"C", "o", "n", "t", "e", "n", "t", "s">>), PageContents(p)>> >>)

\* PageTree.object
PageTree(pages) ==
  PDFDictionary(<<
    <<Name(<<"T", "y", "p", "e">>), Name(<<"P", "a", "g", "e", "s">>)>>,
    <<Name(<<"K", "i", "d", "s">>), PDFArray([i \in 1..Len(pages) |-> Obj(pages[i])])>>,
    <<Name(<<"C", "o", "u", "n", "t">>), Num(Len(pages))>> >>)

\* DocumentCatalog.object
DocumentCatalog ==
  PDFDictionary(<<
    <<Name(<<"T", "y", "p", "e">>), Name(<<"C", "a", "t", "a", "l", "o", "g">>)>>,
    <<Name(<<"P", "a", "g", "e", "s">>), Obj(TREE)>> >>)

\* "{:0w}".format(x) of the fields of a datetime
DateTime(dt) ==
  Str(<<"D", ":">> \o ZeroPad(FormatInt(dt.year), 4) \o ZeroPad(FormatInt(dt.month), 2)
        \o ZeroPad(FormatInt(dt.day), 2) \o ZeroPad(FormatInt(dt.hour), 2)
        \o ZeroPad(FormatInt(dt.minute), 2) \o ZeroPad(FormatInt(dt.second), 2))

\* InfoObject.object: the entries of add_entry are not written
InfoObject(title, now) ==
  PDFDictionary(<<
    <<Name(<<"T", "i", "t", "l", "e">>), Str(title)>>,
    <<Name(<<"C", "r", "e", "a", "t", "i", "o", "n", "D", "a", "t", "e">>), DateTime(now)>> >>)

LENGTH == Name(<<"L", "e", "n", "g", "t", "h">>)

PDFStream(items, contents) == <<"stream", DictItems(<<>>, items), contents>>

\* the objects handed to add_pdf_object: a Numeric holding the length of the
\* stream body, and a stream whose Length refers to that Numeric
AuxData(a, body) ==
  IF a = "len" THEN Num(Len(body))
  ELSE PDFStream(<< <<LENGTH, Obj("len")>> >>, body)

\* obj.data of the objects of a conversion
DataOf(id, pages, body, title, now) ==
  CASE id = CATALOG -> DocumentCatalog
    [] id = TREE -> PageTree(pages)
    [] id = INFO -> InfoObject(title, now)
    [] id \in PageIds -> Page(id)
    [] OTHER -> AuxData(id, body)

Serializable_Always(v, nums) == TRUE

\* bytes(PDFObject) raises ValueError while number or generation is None,
\* bytes(PDFName) when the name holds the byte 0
RECURSIVE Serializable(_, _)
Serializable(v, nums) ==
  CASE v[1] = "obj" -> nums[v[2]].number >= 0 /\ nums[v[2]].generation >= 0
    [] v[1] = "name" -> \A i \in 1..Len(v[2]) : v[2][i] # NUL
    [] v[1] = "arr" -> \A i \in 1..Len(v[2]) : Serializable(v[2][i], nums)
    [] v[1] \in {"dict", "stream"} ->
         \A i \in 1..Len(v[2]) :
           Serializable(v[2][i][1], nums) /\ Serializable(v[2][i][2], nums)
    [] OTHER -> TRUE

to_full_objects_AuxFirst(pages, objs) == <<CATALOG, TREE>> \o objs \o pages \o <<INFO>>

\* PDFWriter._to_full_objects: the list objs
to_full_objects(pages, objs) == <<CATALOG, TREE>> \o pages \o objs \o <<INFO>>

\* PDFWriter._to_full_objects: the loop that numbers the objects
RECURSIVE Renumber(_, _, _)
Renumber(nums, all, num) ==
  IF num >= Len(all) THEN nums
  ELSE Renumber([nums EXCEPT ![all[num + 1]] = [number |-> num + 1, generation |-> 0]],
                all, num + 1)

\* PDFWriter._obj_marker
obj_marker(id, nums) ==
  FormatInt(nums[id].number) \o <<SP>> \o FormatInt(nums[id].generation)
    \o <<SP, "o", "b", "j">>

ObjectBlock(id, data, nums) ==
  obj_marker(id, nums) \o <<LF>> \o ToBytes(data, nums) \o <<LF>> \o ENDOBJ_BYTES \o <<LF>>

HEADER == <<"%", "P", "D", "F", "-", "1", ".", "4", LF>>

MarkOffset_AfterMarker(offsets, id, nums, bytes) ==
  [k \in DOMAIN offsets \cup {nums[id].number} |->
     IF k = nums[id].number THEN Len(bytes) + Len(obj_marker(id, nums)) ELSE offsets[k]]

\* __bytes__: offsets[obj.number] = len(out)
MarkOffset(offsets, id, nums, bytes) ==
  [k \in DOMAIN offsets \cup {nums[id].number} |->
     IF k = nums[id].number THEN Len(bytes) ELSE offsets[k]]

\* __bytes__: the loop over all_objects; gives the bytes and the offsets
RECURSIVE WriteObjects(_, _, _, _, _)
WriteObjects(all, i, datas, nums, acc) ==
  IF i > Len(all) THEN acc
  ELSE WriteObjects(all, i + 1, datas, nums,
         [bytes |-> acc.bytes \o ObjectBlock(all[i], datas[i], nums),
          offsets |-> MarkOffset(acc.offsets, all[i], nums, acc.bytes)])

\* the values of offsets sorted by key
RECURSIVE SortedOffsets(_, _)
SortedOffsets(offsets, k) ==
  IF DOMAIN offsets = {} THEN <<>>
  ELSE IF \A n \in DOMAIN offsets : n < k THEN <<>>
  ELSE IF k \in DOMAIN offsets THEN <<offsets[k]>> \o SortedOffsets(offsets, k + 1)
  ELSE SortedOffsets(offsets, k + 1)

FREE_ROW == <<"0", "0", "0", "0", "0", "0", "0", "0", "0", "0", SP,
              "6", "5", "5", "3", "5", SP, "f", SP, LF>>

XrefRow(off) == ZeroPad(FormatInt(off), 10) \o <<SP, "0", "0", "0", "0", "0", SP, "n", SP, LF>>

xref_section_NoFreeRow(offs) ==
  <<"x", "r", "e", "f", LF, "0", SP>> \o FormatInt(Len(offs) + 1) \o <<LF>>
    \o Concat([i \in 1..Len(offs) |-> XrefRow(offs[i])])

\* __bytes__: the cross-reference section
xref_section(offs) ==
  <<"x", "r", "e", "f", LF, "0", SP>> \o FormatInt(Len(offs) + 1) \o <<LF>>
    \o FREE_ROW \o Concat([i \in 1..Len(offs) |-> XrefRow(offs[i])])

\* PDFWriter._make_trailer; h is the md5 digest of the bytes so far
make_trailer(object_count, h, nums) ==
  <<"t", "r", "a", "i", "l", "e", "r", LF>>
    \o ToBytes(PDFDictionary(<<
          <<Name(<<"S", "i", "z", "e">>), Num(object_count)>>,
          <<Name(<<"R", "o", "o", "t">>), Obj(CATALOG)>>,
          <<Name(<<"I", "n", "f", "o">>), Obj(INFO)>>,
          <<Name(<<"I", "D">>), PDFArray(<<Str(h), Str(h)>>)>> >>), nums)
    \o <<LF>>

startxref_line(start_xref) ==
  <<"s", "t", "a", "r", "t", "x", "r", "e", "f", LF>> \o FormatInt(start_xref)
    \o <<LF, "%", "%", "E", "O", "F", LF>>

\* __bytes__ after the loop over the objects (w) with the sorted offsets
Finish(w, offs, h, nums) ==
  w.bytes \o xref_section(offs) \o make_trailer(Len(offs) + 1, h, nums)
    \o startxref_line(Len(w.bytes))

\* PDFWriter.__bytes__ once the objects are numbered
ToFile(all, datas, nums, h) ==
  LET w == WriteObjects(all, 1, datas, nums, [bytes |-> HEADER, offsets |-> <<>>])
  IN Finish(w, SortedOffsets(w.offsets, 1), h, nums)

(* ------------------------------------------------------------------ *)
(* The reader (pdf_read.py).  f is the whole file, read through seek.   *)

\* data[:e] and data[s:] of Python, a negative index counting from the end
PySliceTo(data, e) ==
  IF e >= 0 THEN SubSeq(data, 1, Min(e, Len(data)))
  ELSE SubSeq(data, 1, Max(Len(data) + e, 0))

PySliceFrom(data, b) ==
  IF b >= 0 THEN Drop(data, Min(b, Len(data)))
  ELSE Drop(data, Max(Len(data) + b, 0))

\* the least member of a non-empty set of integers, and the greatest
Least(S) == CHOOSE i \in S : \A j \in S : i <= j

Greatest(S) == CHOOSE i \in S : \A j \in S : j <= i

\* x.find(c) on the bytes f[from:to]: the index in f, -1 when absent
Places(f, c, from, to) == {i \in from..(Min(to, Len(f)) - 1) : At(f, i) = c}

FindByte(f, c, from, to) ==
  IF Places(f, c, from, to) = {} THEN -1 ELSE Least(Places(f, c, from, to))

\* PDFLineReader.readline: where the line that starts at pos ends, given the
\* first CR (i1) and LF (i2) of the chunk read at chunk
LineEnd(f, chunk, i1, i2) ==
  IF i1 = -1 /\ i2 = -1 THEN -1
  ELSE IF i1 = -1 THEN i2 + 1
  ELSE IF i2 = -1 THEN i1 + 1
  ELSE IF i2 = i1 + 1 THEN i1 + 2
  ELSE Min(i1, i2) + 1

RECURSIVE readline_end(_, _)
readline_end(f, chunk) ==
  IF chunk >= Len(f) THEN Len(f)
  ELSE IF LineEnd(f, chunk, FindByte(f, CR, chunk, chunk + 1024),
                  FindByte(f, LF, chunk, chunk + 1024)) >= 0
  THEN LineEnd(f, chunk, FindByte(f, CR, chunk, chunk + 1024),
               FindByte(f, LF, chunk, chunk + 1024))
  ELSE readline_end(f, chunk + 1024)

\* PDFLineReader.readline at file position pos; the position moves on by the
\* length of the line
readline(f, pos) == Slice(f, Min(pos, Len(f)), readline_end(f, Min(pos, Len(f))))

\* PDFLineReaderComments.readline: the line up to its first %
CutComment(line, i) == IF i > -1 THEN Slice(line, 0, i) ELSE line

readline_comments(f, pos) ==
  CutComment(readline(f, pos), FindByte(readline(f, pos), "%", 0, Len(readline(f, pos))))

\* bytes.strip()
STRIPPED == {SP, HT, LF, CR, "x0B", FF}

RECURSIVE LStrip(_)
LStrip(b) == IF b # <<>> /\ Head(b) \in STRIPPED THEN LStrip(Tail(b)) ELSE b

RECURSIVE RStrip(_)
RStrip(b) == IF b # <<>> /\ Last(b) \in STRIPPED THEN RStrip(Front(b)) ELSE b

Strip(b) == RStrip(LStrip(b))

\* str.split(" ")
RECURSIVE SplitSpace(_, _, _)
SplitSpace(text, i, cur) ==
  IF i > Len(text) THEN <<cur>>
  ELSE IF text[i] = SP THEN <<cur>> \o SplitSpace(text, i + 1, <<>>)
  ELSE SplitSpace(text, i + 1, Append(cur, text[i]))

\* int(text) succeeds: an optional sign and decimal digits
IsInt(text) == IsIntText(text)

IntOf(text) == PDFNumeric(text)[2]

\* PDF._validate
validate(f) ==
  /\ Slice(Slice(f, 0, 9), 0, 5) = <<"%", "P", "D", "F", "-">>
  /\ Slice(f, 0, 9) # <<>>
  /\ Last(Slice(f, 0, 9)) \in WHITESPACE

\* PDF._tail with the default chunk_size
tail(f) == IF Len(f) <= 2048 THEN f ELSE Drop(f, Len(f) - 2048)

\* a PDF.is_end_of_line that takes the end of data for an end of line
is_end_of_line_OrEnd(data, offset) ==
  offset >= Len(data) \/ At(data, offset) \in {LF, CR}

\* PDF.is_end_of_line
is_end_of_line(data, offset) ==
  offset < Len(data) /\ At(data, offset) \in {LF, CR}

\* data[::-1]
Reversed(data) == [i \in 1..Len(data) |-> data[Len(data) + 1 - i]]

\* data.find(sub, start): the least index from start on where sub begins,
\* -1 when there is none
Find(data, sub, start) ==
  LET found == {i \in start..(Len(data) - Len(sub)) :
                  IF sub = <<>> THEN TRUE
                  ELSE At(data, i) = sub[1] /\ Slice(data, i, i + Len(sub)) = sub}
  IN IF found = {} THEN -1 ELSE Least(found)

\* PDF.find_last_occurance: the loop over the places of the reversed pattern
\* in the reversed data
RECURSIVE FindLoop(_, _, _, _)
FindLoop(data, reversed_data, reversed_bytes, reversed_index) ==
  LET found == Find(reversed_data, reversed_bytes, reversed_index + 1)
      index == Len(data) - found - Len(reversed_bytes)
  IN IF found = -1 THEN -1
     ELSE IF is_end_of_line(data, index + Len(reversed_bytes)) THEN index
     ELSE FindLoop(data, reversed_data, reversed_bytes, found)

\* PDF.find_last_occurance
find_last_occurance(data, pattern) ==
  FindLoop(data, Reversed(data), Reversed(pattern), -1)

\* the value of a failed or successful step of the reader
Err(e) == [r |-> "err", obj |-> NoObj, e |-> e]

Val(v) == [r |-> "ok", obj |-> v, e |-> ""]

Hang == [r |-> "hang", obj |-> NoObj, e |-> ""]

\* the outcome of list(PDFParser(...)) as a step of the reader
Listed(tk) ==
  IF tk.st = "done" THEN Val(tk.yielded)
  ELSE IF tk.st = "hang" THEN Hang
  ELSE Err(tk.st)

\* dict built from the rows (n, loc, g) of the index: a later row replaces an
\* earlier one with the same key
Lookup_of(objects) ==
  [k \in {<<objects[i][1], objects[i][3]>> : i \in 1..Len(objects)} |->
     objects[CHOOSE i \in 1..Len(objects) :
               /\ <<objects[i][1], objects[i][3]>> = k
               /\ \A j \in (i + 1)..Len(objects) : <<objects[j][1], objects[j][3]>> # k][2]]

\* PDF._read_xrefs: the rows of one subsection
RECURSIVE xref_rows(_, _, _, _, _, _)
RECURSIVE xref_sections(_, _, _)

XrefRowRead_KeepFree(f, pos, start, count, row, objects, raw, fields) ==
  IF Len(fields) # 3 THEN Err("ValueError")
  ELSE IF ~IsInt(fields[1]) \/ ~IsInt(fields[2]) THEN Err("ValueError")
  ELSE xref_rows(f, pos + Len(raw), start, count, row + 1,
                 Append(objects, <<row + start, IntOf(fields[1]), IntOf(fields[2])>>))

XrefRowRead(f, pos, start, count, row, objects, raw, fields) ==
  IF Len(fields) # 3 THEN Err("ValueError")
  ELSE IF ~IsInt(fields[1]) \/ ~IsInt(fields[2]) THEN Err("ValueError")
  ELSE xref_rows(f, pos + Len(raw), start, count, row + 1,
                 IF fields[3] = <<"n">>
                 THEN Append(objects, <<row + start, IntOf(fields[1]), IntOf(fields[2])>>)
                 ELSE objects)

xref_rows(f, pos, start, count, row, objects) ==
  IF row >= count THEN xref_sections(f, pos, objects)
  ELSE XrefRowRead(f, pos, start, count, row, objects, readline(f, pos),
                   SplitSpace(Strip(readline_comments(f, pos)), 1, <<>>))

XrefHeadRead(f, pos, objects, raw, fields) ==
  IF Len(fields) # 2 THEN Val(Lookup_of(objects))
  ELSE IF ~IsInt(fields[1]) \/ ~IsInt(fields[2]) THEN Val(Lookup_of(objects))
  ELSE xref_rows(f, pos + Len(raw), IntOf(fields[1]), IntOf(fields[2]), 0, objects)

\* PDF._read_xrefs: the loop over the subsections
xref_sections(f, pos, objects) ==
  XrefHeadRead(f, pos, objects, readline(f, pos),
               SplitSpace(Strip(readline_comments(f, pos)), 1, <<>>))

\* PDF._read_xrefs
read_xrefs(f, offset) ==
  IF Strip(readline_comments(f, offset)) # <<"x", "r", "e", "f">> THEN Err("ValueError")
  ELSE xref_sections(f, offset + Len(readline(f, offset)), <<>>)

\* PDF._read_tail after the trailer is tokenized (listed)
TailTrailer(f, xref_offset, listed) ==
  IF listed.r # "ok" THEN listed
  ELSE IF listed.obj = <<>> THEN Err("IndexError")
  ELSE IF listed.obj[1][1] # "dict" THEN Err("TypeError")
  ELSE IF HasKey(listed.obj[1], Name(<<"P", "r", "e", "v">>)) THEN Err("ValueError")
  ELSE [r |-> "ok", obj |-> listed.obj[1], e |-> "", lookup |-> read_xrefs(f, xref_offset)]

\* PDF._read_tail once the places of %%EOF (data cut there: head), of
\* startxref and of trailer are found
TailAt(f, data, head, startxref_index, line2) ==
  IF ~IsInt(Strip(line2)) THEN Err("ValueError")
  ELSE TailTrailer(f, IntOf(Strip(line2)),
         Listed(ListParser(PySliceFrom(data, find_last_occurance(head, <<"t", "r", "a", "i", "l", "e", "r">>) + 7))))

TailLines(f, data, head, startxref_index, lines) ==
  TailAt(f, data, head, startxref_index,
         readline_comments(lines, Len(readline(lines, 0))))

TailHead(f, data, head, startxref_index) ==
  TailLines(f, data, head, startxref_index, PySliceFrom(data, startxref_index))

TailData(f, data, head) ==
  TailHead(f, data, head,
           find_last_occurance(head, <<"s", "t", "a", "r", "t", "x", "r", "e", "f">>))

\* PDF._read_tail
read_tail(f, data) ==
  TailData(f, data, PySliceTo(data, find_last_occurance(data, <<"%", "%", "E", "O", "F">>)))

\* PDF.__init__: _validate, then _read_tail
OpenFile(f) == IF ~validate(f) THEN Err("ValueError") ELSE read_tail(f, tail(f))

\* PDF._parse_object_header on the bytes at the location: the bytes up to
\* and including obj, -1 for None, -2 for the ValueError of an empty slice
HeaderObj(data, p2) ==
  IF p2 >= Len(data) THEN -2
  ELSE IF Slice(data, p2, p2 + 3) # <<"o", "b", "j">> THEN -1
  ELSE p2 + 3

HeaderGen(data, p1, e2) ==
  IF e2 = p1 THEN -1 ELSE HeaderObj(data, length_suffix_whitespace(data, e2))

HeaderNum(data, p0, e1) ==
  IF e1 = p0 THEN -1
  ELSE HeaderGen(data, length_suffix_whitespace(data, e1),
                 RunEnd(data, length_suffix_whitespace(data, e1), DIGITS))

parse_object_header(data) ==
  HeaderNum(data, length_suffix_whitespace(data, 0),
            RunEnd(data, length_suffix_whitespace(data, 0), DIGITS))

PDFStreamIndicator(location) == <<"indicator", location>>

\* PDF.object_at after list(p): tk is the tokenizer when it stopped
ObjectsOf(f, tk) ==
  IF tk.st = "hang" THEN Hang
  ELSE IF tk.st # "done" THEN Err(tk.st)
  ELSE IF tk.yielded = <<>> THEN Err("IndexError")
  ELSE IF SliceRaises(PULLBYTESSTREAM, tk.pbs, 0, 6) THEN Err("ValueError")
  ELSE IF Last(tk.yielded)[1] = "dict" /\ Slice(tk.pbs, 0, 6) = STREAM_BYTES
  THEN Val(Append(tk.yielded, PDFStreamIndicator(Len(f) - Len(tk.pbs))))
  ELSE IF Slice(tk.pbs, 0, 6) # ENDOBJ_BYTES THEN Err("ValueError")
  ELSE Val(tk.yielded)

ObjectAfterHeader(f, data, header) ==
  IF header < 0 THEN Err("ValueError")
  ELSE ObjectsOf(f, ListParser(Drop(data, header)))

\* PDF.object_at
object_at(f, location) ==
  ObjectAfterHeader(f, Drop(f, Min(location, Len(f))),
                    parse_object_header(Drop(f, Min(location, Len(f)))))

\* PDF.read_stream
StreamRead(result) ==
  IF result.r = "none" THEN Err("ValueError")
  ELSE IF result.r = "err" THEN Err(result.e)
  ELSE Val(result.obj)

read_stream(f, location, length) ==
  StreamRead(StreamParser(PULLBYTESSTREAM, length, Drop(f, Min(location, Len(f)))))

MaxDepth == 5

RECURSIVE full_object_at(_, _, _, _)
RECURSIVE recurse_populate(_, _, _, _)
RECURSIVE populate_items(_, _, _, _, _, _)

make_new_object_KeyError(f, lk, old_obj, depth) ==
  IF old_obj[1] = "ref" THEN
    IF <<old_obj[2], old_obj[3]>> \notin DOMAIN lk THEN Err("KeyError")
    ELSE full_object_at(f, lk, lk[<<old_obj[2], old_obj[3]>>], depth + 1)
  ELSE IF old_obj[1] \in {"arr", "dict"} THEN recurse_populate(f, lk, old_obj, depth)
  ELSE Val(old_obj)

\* _recurse_populate.make_new_object
make_new_object(f, lk, old_obj, depth) ==
  IF old_obj[1] = "ref" THEN
    IF <<old_obj[2], old_obj[3]>> \notin DOMAIN lk THEN Val(PDFNull)
    ELSE full_object_at(f, lk, lk[<<old_obj[2], old_obj[3]>>], depth + 1)
  ELSE IF old_obj[1] \in {"arr", "dict"} THEN recurse_populate(f, lk, old_obj, depth)
  ELSE Val(old_obj)

\* the list comprehensions of _recurse_populate: the first item that raises
\* ends them
PopulateNext(f, lk, items, i, acc, depth, made) ==
  IF made.r # "ok" THEN made
  ELSE populate_items(f, lk, items, i + 1, Append(acc, made.obj), depth)

populate_items(f, lk, items, i, acc, depth) ==
  IF i > Len(items) THEN Val(acc)
  ELSE PopulateNext(f, lk, items, i, acc, depth, make_new_object(f, lk, items[i], depth))

Rebuilt(kind, keys, made) ==
  IF made.r # "ok" THEN made
  ELSE IF kind = "arr" THEN Val(PDFArray(made.obj))
  ELSE Val(PDFDictionary([i \in 1..Len(keys) |-> <<keys[i], made.obj[i]>>]))

\* PDF._recurse_populate
recurse_populate(f, lk, obj, depth) ==
  IF obj[1] = "arr"
  THEN Rebuilt("arr", <<>>, populate_items(f, lk, obj[2], 1, <<>>, depth))
  ELSE IF obj[1] = "dict"
  THEN Rebuilt("dict", [i \in 1..Len(obj[2]) |-> obj[2][i][1]],
               populate_items(f, lk, [i \in 1..Len(obj[2]) |-> obj[2][i][2]], 1, <<>>,
                              depth))
  ELSE Val(obj)

\* full_object_at: the stream is read once Length is taken off the populated
\* dictionary
WithStream(obj, stream) ==
  IF stream.r # "ok" THEN stream ELSE Val(PDFStream(obj[2], stream.obj[2]))

FullStream(f, objs, obj) ==
  IF ~HasKey(obj, LENGTH) THEN Err("KeyError")
  ELSE IF Lookup(obj, LENGTH)[1] # "num" THEN Err("AttributeError")
  ELSE WithStream(obj, read_stream(f, objs[2][2], Lookup(obj, LENGTH)[2]))

FullPopulated(f, objs, made) ==
  IF made.r # "ok" THEN made
  ELSE IF Len(objs) = 2 THEN FullStream(f, objs, made.obj)
  ELSE made

FullObjects(f, lk, read, depth) ==
  IF read.r # "ok" THEN read
  ELSE IF ~(Len(read.obj) = 1 \/ (Len(read.obj) = 2 /\ read.obj[2][1] = "indicator"))
  THEN Err("ValueError")
  ELSE FullPopulated(f, read.obj, recurse_populate(f, lk, read.obj[1], depth))

\* PDF.full_object_at; depth counts the calls of full_object_at that are
\* under way, and past MaxDepth the interpreter raises RecursionError
full_object_at(f, lk, location, depth) ==
  IF depth > MaxDepth THEN Err("RecursionError")
  ELSE FullObjects(f, lk, object_at(f, location), depth)

(* ------------------------------------------------------------------ *)
(* The document: a PDFWriter is filled and converted to bytes, and the  *)
(* reader PDF opens the bytes and resolves the objects.                 *)

MaxRegistered == 3

Payloads == {<<>>, <<"q", LF>>}

Titles == {<<"N", "o", "n", "e">>, <<"T", "(", "1", ")">>}

\* what a conversion takes from outside: the value of datetime.now() and the
\* 16 bytes of the md5 digest
Surroundings ==
  {[now |-> [year |-> 2017, month |-> 1, day |-> 1, hour |-> 12, minute |-> 32,
             second |-> 45],
    digest |-> <<"xD4", "x1D", "x8C", "xD9", "x8F", "x00", "xB2", "x04",
                 "xE9", "x80", "x09", "x98", "xEC", "xF8", "B", "~">>],
   [now |-> [year |-> 2026, month |-> 11, day |-> 30, hour |-> 0, minute |-> 5,
             second |-> 9],
    digest |-> <<"(", ")", BACKSLASH, LF, CR, "%", "a", ">",
                 ">", "[", "R", SP, "/", "x7F", "xFF", "0">>]}

NoConversion == [objs |-> <<>>, pages |-> <<>>, auxs |-> <<>>, st |-> "none"]

InitDoc ==
  /\ IdleOthers
  /\ IdleTok
  /\ IdleStream
  /\ IdleReader
  /\ w_pages = <<>>
  /\ w_objs = <<>>
  /\ w_info = <<"N", "o", "n", "e">>
  /\ obj_ids = [id \in AllIds |-> Unnumbered]
  /\ payload \in Payloads
  /\ w_out = <<>>
  /\ w_last = NoConversion

\* PDFWriter.add_page
add_page ==
  /\ r_st = "closed"
  /\ Len(w_pages) + Len(w_objs) < MaxRegistered
  /\ \E p \in PageIds : w_pages' = Append(w_pages, p)
  /\ w_out' = <<>>
  /\ UNCHANGED <<w_objs, w_info, obj_ids, payload, w_last, tokVars, spVars, readerVars, callVars, streamVars, lineVars>>

\* PDFWriter.add_pdf_object, handed a PDFObject
add_pdf_object ==
  /\ r_st = "closed"
  /\ Len(w_pages) + Len(w_objs) < MaxRegistered
  /\ \E a \in AuxIds : w_objs' = Append(w_objs, a)
  /\ w_out' = <<>>
  /\ UNCHANGED <<w_pages, w_info, obj_ids, payload, w_last, tokVars, spVars, readerVars, callVars, streamVars, lineVars>>

\* PDFWriter.set_info_object
set_info_object ==
  /\ r_st = "closed"
  /\ \E t \in Titles \ {w_info} : w_info' = t
  /\ w_out' = <<>>
  /\ UNCHANGED <<w_pages, w_objs, obj_ids, payload, w_last, tokVars, spVars, readerVars, callVars, streamVars, lineVars>>

\* __bytes__ with the objects all, numbered nums, whose data are datas
Converted(all, nums, datas, h) ==
  /\ obj_ids' = nums
  /\ IF \A i \in 1..Len(all) : Serializable(datas[i], nums)
     THEN /\ w_out' = ToFile(all, datas, nums, h)
          /\ w_last' = [objs |-> all, pages |-> w_pages, auxs |-> w_objs, st |-> "ok"]
     ELSE /\ w_out' = <<>>
          /\ w_last' = [objs |-> all, pages |-> w_pages, auxs |-> w_objs,
                        st |-> "ValueError"]

Convert(all, now, h) ==
  Converted(all, Renumber(obj_ids, all, 0),
            [i \in 1..Len(all) |-> DataOf(all[i], w_pages, payload, w_info, now)], h)

\* bytes(writer): PDFWriter.__bytes__
writer_bytes ==
  /\ r_st = "closed"
  /\ \E s \in Surroundings : Convert(to_full_objects(w_pages, w_objs), s.now, s.digest)
  /\ UNCHANGED <<w_pages, w_objs, w_info, payload, tokVars, spVars, readerVars, callVars, streamVars, lineVars>>

\* the reader after PDF(file) ended as opened says
Opened(opened) ==
  /\ r_st' = IF opened.r = "ok" /\ opened.lookup.r = "ok" THEN "open"
             ELSE IF opened.r = "hang" THEN "hang"
             ELSE IF opened.r = "ok" THEN opened.lookup.e
             ELSE opened.e
  /\ trailer' = IF opened.r = "ok" THEN opened.obj ELSE NoObj
  /\ obj_lookup' = IF opened.r = "ok" /\ opened.lookup.r = "ok" THEN opened.lookup.obj
                    ELSE <<>>

\* PDF(file) on the bytes the writer gave
open_pdf ==
  /\ r_st = "closed"
  /\ w_out # <<>>
  /\ file' = w_out
  /\ Opened(OpenFile(w_out))
  /\ UNCHANGED <<r_call, r_result, writerVars, tokVars, spVars, callVars, streamVars, lineVars>>

\* PDF.full_object_at(object_lookup[ref]) for a key of the index
call_full_object_at ==
  /\ r_st = "open"
  /\ \E ref \in DOMAIN obj_lookup :
       /\ r_call' = ref
       /\ r_result' = full_object_at(file, obj_lookup, obj_lookup[ref], 0)
  /\ UNCHANGED <<file, r_st, obj_lookup, trailer, writerVars, tokVars, spVars, callVars, streamVars, lineVars>>

NextDoc ==
  \/ add_page
  \/ add_pdf_object
  \/ set_info_object
  \/ writer_bytes
  \/ open_pdf
  \/ call_full_object_at

Spec == InitDoc /\ [][NextDoc]_vars

(* ------------------------------------------------------------------ *)
(* Single calls: a recognizer handed the byte form of a value, a       *)
(* recognizer handed raw bytes, bytes(PDFObject), and                  *)
(* ImageDictionary.object().                                           *)

MaxCallLen == 3

PARSE_NAME == "ParseName"

STRING_PARSER == "StringParser"

NUMERIC_PARSER == "NumericParser"

OBJECT_BYTES == "bytes(PDFObject)"

IMAGE_OBJECT == "ImageDictionary.object"

INFO_OBJECT == "InfoObject.object"

PARSE_OBJECT_ID == "ParseObjectId"

FIND_LAST_OCCURANCE == "PDF.find_last_occurance"

NameAlphabet == {"a", "#", "4", "1", SP, "/", "xEE", NUL}

StringAlphabet == {"a", "(", ")", BACKSLASH, LF, CR, HT, BS, FF, "x80"}

NumericAlphabet == {"1", "5", ".", "-", "+", "a", SP, "/"}

NameCalls ==
  {[op |-> PARSE_NAME, arg |-> PDFName(n)] : n \in SeqsUpTo(NameAlphabet, MaxCallLen)}

StringCalls ==
  {[op |-> STRING_PARSER, arg |-> <<kind, PDFString(t)>>] :
     kind \in {BYTES, PULLBYTESSTREAM}, t \in SeqsUpTo(StringAlphabet, MaxCallLen)}

NumericCalls ==
  {[op |-> NUMERIC_PARSER, arg |-> d] : d \in SeqsUpTo(NumericAlphabet, MaxCallLen + 1)}

\* PDFObject(data, number, generation): -1 stands for None
ObjectCalls ==
  {[op |-> OBJECT_BYTES, arg |-> [number |-> n, generation |-> g]] :
     n \in {-1, 1, 12}, g \in {-1, 0, 5}}

PREDICTOR == Name(<<"P", "r", "e", "d", "i", "c", "t", "o", "r">>)

COLUMNS == Name(<<"C", "o", "l", "u", "m", "n", "s">>)

FLATE_DECODE == <<"F", "l", "a", "t", "e", "D", "e", "c", "o", "d", "e">>

\* the parameters of a filter: None, or pairs of a key and an integer
NoParameters == [given |-> FALSE, items |-> <<>>]

Parameters(items) == [given |-> TRUE, items |-> items]

FilterParameters ==
  {NoParameters, Parameters(<<>>), Parameters(<< <<PREDICTOR, Num(5)>> >>),
   Parameters(<< <<PREDICTOR, Num(15)>>, <<COLUMNS, Num(2)>> >>)}

ImageCalls ==
  {[op |-> IMAGE_OBJECT, arg |-> [filter |-> f, data |-> d, params |-> p]] :
     f \in {NoObj, FLATE_DECODE}, d \in {<<>>, <<"1", "2", "3", "4">>},
     p \in FilterParameters}

\* the (name, value) pairs handed to InfoObject.add_entry
InfoEntries ==
  {<<n, Str(v)>> : n \in {<<"A", "u", "t", "h", "o", "r">>, <<"S", "u", "b", "j", "e", "c", "t">>},
                   v \in {<<"a">>, <<>>}}

\* InfoObject(title), then add_entry for each pair of entries, in order
InfoCalls ==
  {[op |-> INFO_OBJECT, arg |-> [title |-> t, entries |-> e]] :
     t \in Titles, e \in SeqsUpTo(InfoEntries, MaxCallLen - 1)}

ReferenceAlphabet == {"1", SP, "R", "/"}

ReferenceCalls ==
  {[op |-> PARSE_OBJECT_ID, arg |-> d] : d \in SeqsUpTo(ReferenceAlphabet, MaxCallLen + 1)}

FindAlphabet == {"a", "b", LF, CR}

FindPatterns == {<<"a">>, <<"a", "a">>, <<"a", "b">>}

FindCalls ==
  {[op |-> FIND_LAST_OCCURANCE, arg |-> [data |-> d, pattern |-> p]] :
     d \in SeqsUpTo(FindAlphabet, MaxCallLen + 1), p \in FindPatterns}

CallFixtures ==
  NameCalls \cup StringCalls \cup NumericCalls \cup ObjectCalls \cup ImageCalls \cup InfoCalls
    \cup ReferenceCalls \cup FindCalls

\* bytes(value) of a value that holds no indirect object
Bytes(v) == IF Serializable(v, NoNums) THEN Ok(ToBytes(v, NoNums), 0) ELSE Raise("ValueError")

\* bytes(PDFObject(None, number, generation))
ObjectBytes(id) ==
  IF Serializable(Obj("x"), [x |-> id])
  THEN Ok(ToBytes(Obj("x"), [x |-> id]), 0)
  ELSE Raise("ValueError")

SUBTYPE == Name(<<"S", "u", "b", "t", "y", "p", "e">>)

FILTER == Name(<<"F", "i", "l", "t", "e", "r">>)

DECODE_PARMS == Name(<<"D", "e", "c", "o", "d", "e", "P", "a", "r", "m", "s">>)

\* ImageDictionary(1024, 768, ColourSpaceRGB(), 8) after
\* add_filtered_data(filter, data, params): what object() returns
ImageDictionary_object(filter, data, params) ==
  PDFStream(
    << <<SUBTYPE, Name(<<"I", "m", "a", "g", "e">>)>>,
       <<Name(<<"W", "i", "d", "t", "h">>), Num(1024)>>,
       <<Name(<<"H", "e", "i", "g", "h", "t">>), Num(768)>>,
       <<Name(<<"C", "o", "l", "o", "r", "S", "p", "a", "c", "e">>),
         Name(<<"D", "e", "v", "i", "c", "e", "R", "G", "B">>)>>,
       <<Name(<<"B", "i", "t", "s", "P", "e", "r", "C", "o", "m", "p", "o", "n", "e", "n", "t">>),
         Num(8)>>,
       <<Name(<<"I", "n", "t", "e", "r", "p", "o", "l", "a", "t", "e">>), PDFBoolean(TRUE)>> >>
    \o (IF filter # NoObj THEN << <<FILTER, Name(filter)>> >> ELSE <<>>)
    \o << <<LENGTH, Num(Len(data))>> >>
    \o (IF params.given THEN params.items ELSE <<>>),
    data)

\* InfoObject.add_entry
add_entry(others, name, value) == Append(others, <<name, value>>)

\* InfoObject._others after add_entry for each of entries
RECURSIVE OthersAfter(_)
OthersAfter(entries) ==
  IF entries = <<>> THEN <<>>
  ELSE add_entry(OthersAfter(Front(entries)), Last(entries)[1], Last(entries)[2])

\* InfoObject.object of an InfoObject holding others: the dictionary is built
\* from the title and the clock, others is not read
InfoObject_object(title, others, now) == InfoObject(title, now)

\* the clock read by InfoObject.object
NOW == (CHOOSE x \in Surroundings : TRUE).now

InitCall ==
  /\ IdleTok
  /\ IdleStream
  /\ IdleWriter
  /\ IdleReader
  /\ IdlePullBytesStream
  /\ IdleLine
  /\ \E f \in CallFixtures : c_op = f.op /\ c_arg = f.arg
  /\ c_result = NotCalled

Returns(res) ==
  /\ c_result = NotCalled
  /\ c_result' = res
  /\ UNCHANGED <<c_op, c_arg, tokVars, spVars, writerVars, readerVars, streamVars, lineVars>>

\* ParseName().parse(bytes(name))
parse_name_bytes ==
  /\ c_op = PARSE_NAME
  /\ Returns(IF Bytes(c_arg).r = "ok" THEN ParseName(Bytes(c_arg).obj) ELSE Bytes(c_arg))

\* StringParser().parse(bytes(string)), on bytes or on a PullBytesStream
parse_string_bytes ==
  /\ c_op = STRING_PARSER
  /\ Returns(StringParser(c_arg[1], Bytes(c_arg[2]).obj))

\* NumericParser().parse(data)
parse_numeric ==
  /\ c_op = NUMERIC_PARSER
  /\ Returns(NumericParser(c_arg))

\* bytes(PDFObject(None, number, generation))
object_bytes ==
  /\ c_op = OBJECT_BYTES
  /\ Returns(ObjectBytes(c_arg))

\* ImageDictionary.object()
image_object ==
  /\ c_op = IMAGE_OBJECT
  /\ Returns(Ok(ImageDictionary_object(c_arg.filter, c_arg.data, c_arg.params), 0))

\* InfoObject(title), add_entry(name, value) for each entry, then object()
info_object ==
  /\ c_op = INFO_OBJECT
  /\ Returns(Ok(InfoObject_object(c_arg.title, OthersAfter(c_arg.entries), NOW), 0))

\* ParseObjectId().parse(data)
parse_object_id ==
  /\ c_op = PARSE_OBJECT_ID
  /\ Returns(ParseObjectId(c_arg))

\* an int that a call returns
PyInt(n) == <<"int", n>>

\* PDF.find_last_occurance(data, pattern)
call_find_last_occurance ==
  /\ c_op = FIND_LAST_OCCURANCE
  /\ Returns(Ok(PyInt(find_last_occurance(c_arg.data, c_arg.pattern)), 0))

NextCall ==
  \/ parse_name_bytes
  \/ parse_string_bytes
  \/ parse_numeric
  \/ object_bytes
  \/ image_object
  \/ info_object
  \/ parse_object_id
  \/ call_find_last_occurance

SpecCall == InitCall /\ [][NextCall]_vars

(* ------------------------------------------------------------------ *)
(* The reader on files whose cross-reference section has several       *)
(* subsections, free rows, and references to objects it does not list. *)

MaxRows == 2

\* the objects of the file: 1 is an array of three references, the first of
\* them to an object that no file lists; 4 is a single reference
FileObjects ==
  <<<<"1", SP, "0", SP, "o", "b", "j", LF, "[", "9", SP, "1", SP, "R", SP,
      "2", SP, "0", SP, "R", SP, "3", SP, "1", SP, "R", "]", LF>> \o ENDOBJ_BYTES \o <<LF>>,
    <<"2", SP, "0", SP, "o", "b", "j", LF, "(", "a", ")", LF>> \o ENDOBJ_BYTES \o <<LF>>,
    <<"3", SP, "1", SP, "o", "b", "j", LF, "7", LF>> \o ENDOBJ_BYTES \o <<LF>>,
    <<"4", SP, "0", SP, "o", "b", "j", LF, "2", SP, "0", SP, "R", LF>>
      \o ENDOBJ_BYTES \o <<LF>> >>

\* the generation of the object numbered k, and its byte offset (0 for a
\* number without object)
GenerationOf(k) == IF k = 3 THEN 1 ELSE 0

OffsetOf(k) ==
  IF k \notin 1..Len(FileObjects) THEN 0
  ELSE Len(HEADER) + Len(Concat([i \in 1..(k - 1) |-> FileObjects[i]]))

IN_USE_ROW == "n"

FREE_ROW_TYPE == "f"

\* a subsection: the number of its first row and the types of its rows
Subsections ==
  {[start |-> s, types |-> t] :
     s \in 0..3, t \in SeqsUpTo({IN_USE_ROW, FREE_ROW_TYPE}, MaxRows) \ {<<>>}}

After(a, b) == b.start >= a.start + Len(a.types)

\* one subsection, or two that share no row
SectionLists ==
  {<<a>> : a \in Subsections}
    \cup {p \in Subsections \X Subsections : After(p[1], p[2])}

RowEnds == {<<SP, LF>>, <<CR, LF>>}

FileDescriptions == {[sections |-> ss, eol |-> e] : ss \in SectionLists, e \in RowEnds}

RowText(k, type, eol) ==
  IF type = IN_USE_ROW
  THEN ZeroPad(FormatInt(OffsetOf(k)), 10) \o <<SP>> \o ZeroPad(FormatInt(GenerationOf(k)), 5)
         \o <<SP, "n">> \o eol
  ELSE ZeroPad(<<"0">>, 10) \o <<SP, "6", "5", "5", "3", "5", SP, "f">> \o eol

SubsectionText(a, eol) ==
  FormatInt(a.start) \o <<SP>> \o FormatInt(Len(a.types)) \o <<LF>>
    \o Concat([r \in 1..Len(a.types) |-> RowText(a.start + r - 1, a.types[r], eol)])

\* the file a description stands for
FileOf(d) ==
  HEADER \o Concat(FileObjects) \o <<"x", "r", "e", "f", LF>>
    \o Concat([i \in 1..Len(d.sections) |-> SubsectionText(d.sections[i], d.eol)])
    \o <<"t", "r", "a", "i", "l", "e", "r", LF, "<", "<", "/", "S", "i", "z", "e", SP, "4",
         ">", ">", LF, "s", "t", "a", "r", "t", "x", "r", "e", "f", LF>>
    \o FormatInt(Len(HEADER \o Concat(FileObjects)))
    \o <<LF, "%", "%", "E", "O", "F", LF>>

PDF_FILE == "PDF(file)"

InitFile ==
  /\ IdleTok
  /\ IdleStream
  /\ IdleWriter
  /\ IdlePullBytesStream
  /\ IdleLine
  /\ \E d \in FileDescriptions :
       /\ c_op = PDF_FILE
       /\ c_arg = d
       /\ file = FileOf(d)
  /\ c_result = NotCalled
  /\ r_st = "closed"
  /\ obj_lookup = <<>>
  /\ trailer = NoObj
  /\ r_call = <<>>
  /\ r_result = [r |-> "pending", obj |-> NoObj, e |-> ""]

\* PDF(file) on a file that was not written by the writer
open_file ==
  /\ r_st = "closed"
  /\ c_op = PDF_FILE
  /\ Opened(OpenFile(file))
  /\ UNCHANGED <<file, r_call, r_result, writerVars, tokVars, spVars, callVars, streamVars, lineVars>>

NextFile == open_file \/ call_full_object_at

SpecFile == InitFile /\ [][NextFile]_vars

(* ------------------------------------------------------------------ *)
(* PullBytesStream (pdf_parser.py) over a file: the wrapped file is    *)
(* its bytes and its position; st is the position, _buffer and _length.*)

MaxSource == 3

MaxPlace == 3

UNSET == -1

\* PullBytesStream(file) on a file at position pos
PullBytesStream(pos) == [pos |-> pos, buffer |-> <<>>, length |-> UNSET]

\* self._file.read(n) for n >= 0: the bytes, and the stream after it
FileRead(source, st, n) == Slice(source, st.pos, st.pos + n)

AfterFileRead(source, st, n) == [st EXCEPT !.pos = Min(st.pos + n, Len(source))]

\* PullBytesStream._length_left
length_left(source, st) == Len(source) - st.pos

\* PullBytesStream.tell
PullBytesStream_tell(st) == st.pos - Len(st.buffer)

PullBytesStream_buffer_KeepLength(source, st, n) ==
  IF n - Len(st.buffer) > 0
  THEN [AfterFileRead(source, st, n - Len(st.buffer))
          EXCEPT !.buffer = st.buffer \o FileRead(source, st, n - Len(st.buffer))]
  ELSE st

\* PullBytesStream.buffer
PullBytesStream_buffer(source, st, n) ==
  IF n - Len(st.buffer) > 0
  THEN [AfterFileRead(source, st, n - Len(st.buffer))
          EXCEPT !.buffer = st.buffer \o FileRead(source, st, n - Len(st.buffer)),
                 !.length = UNSET]
  ELSE st

\* PullBytesStream.__len__: the stream after it, and what it returns
PullBytesStream_len(source, st) ==
  [st |-> [st EXCEPT !.length = IF @ = UNSET THEN length_left(source, st) ELSE @],
   r |-> Ok((IF st.length = UNSET THEN length_left(source, st) ELSE st.length)
              + Len(st.buffer), 0)]

\* PullBytesStream.read
PullBytesStream_read(source, st, n) ==
  IF n < -1 THEN [st |-> st, r |-> Raise("ValueError")]
  ELSE IF n = -1
  THEN [st |-> [pos |-> Len(source), buffer |-> <<>>, length |-> UNSET],
        r |-> Ok(st.buffer \o Drop(source, st.pos), 0)]
  ELSE IF n <= Len(st.buffer)
  THEN [st |-> [st EXCEPT !.buffer = Drop(st.buffer, n)],
        r |-> Ok(Slice(st.buffer, 0, n), 0)]
  ELSE [st |-> [AfterFileRead(source, st, n - Len(st.buffer))
                  EXCEPT !.buffer = <<>>, !.length = UNSET],
        r |-> Ok(st.buffer \o FileRead(source, st, n - Len(st.buffer)), 0)]

\* PullBytesStream.__getitem__(place) for an integer
Indexed(st, place) ==
  [st |-> st,
   r |-> IF place >= Len(st.buffer) THEN Raise("IndexError") ELSE Ok(At(st.buffer, place), 0)]

PullBytesStream_index(source, st, place) ==
  IF place < 0 THEN [st |-> st, r |-> Raise("IndexError")]
  ELSE Indexed(PullBytesStream_buffer(source, st, place + 1), place)

\* PullBytesStream.__getitem__(slice(a, b)), 0 <= a, b: measured is the
\* stream after len(self) and n what it returned
Sliced(st, a, b) == [st |-> st, r |-> Ok(Slice(st.buffer, a, b), 0)]

SliceOf(source, measured, n, a, b) ==
  IF Min(a, n) >= Min(b, n) THEN [st |-> measured, r |-> Raise("ValueError")]
  ELSE Sliced(PullBytesStream_buffer(source, measured, Min(b, n)), Min(a, n), Min(b, n))

PullBytesStream_slice(source, st, a, b) ==
  SliceOf(source, PullBytesStream_len(source, st).st,
          PullBytesStream_len(source, st).r.obj, a, b)

\* length_suffix_whitespace(stream): the stream after its lookahead, and the
\* count of whitespace bytes at its head
RECURSIVE WhitespaceLoop(_, _, _)
WhitespaceLoop(source, st, index) ==
  IF PullBytesStream_len(source, st).r.obj <= index
  THEN [st |-> PullBytesStream_len(source, st).st, r |-> Ok(index, 0)]
  ELSE IF PullBytesStream_slice(source, st, index, index + 1).r.obj[1] \notin WHITESPACE
  THEN [st |-> PullBytesStream_slice(source, st, index, index + 1).st, r |-> Ok(index, 0)]
  ELSE WhitespaceLoop(source, PullBytesStream_slice(source, st, index, index + 1).st,
                      index + 1)

\* PullBytesStream.skip_whitespace
PullBytesStream_skip_whitespace(source, st) ==
  PullBytesStream_read(source, WhitespaceLoop(source, st, 0).st,
                       WhitespaceLoop(source, st, 0).r.obj)

PullState == [pos |-> ps_pos, buffer |-> ps_buffer, length |-> ps_length]

READ == "read"

SKIP_WHITESPACE == "skip_whitespace"

INDEX == "index"

SLICE == "slice"

LEN == "len"

InitPull ==
  /\ IdleTok
  /\ IdleStream
  /\ IdleWriter
  /\ IdleReader
  /\ IdleCall
  /\ IdleLine
  /\ ps_source \in SeqsUpTo({"a", SP}, MaxSource)
  /\ ps_start \in 0..Len(ps_source)
  /\ ps_pos = ps_start
  /\ ps_buffer = <<>>
  /\ ps_length = UNSET
  /\ ps_read = <<>>
  /\ ps_last = <<>>

\* the stream after an operation that returned or raised res.r
PullSet(op, arg, res) ==
  /\ ps_pos' = res.st.pos
  /\ ps_buffer' = res.st.buffer
  /\ ps_length' = res.st.length
  /\ ps_read' = IF op \in {READ, SKIP_WHITESPACE} /\ res.r.r = "ok"
                THEN ps_read \o res.r.obj ELSE ps_read
  /\ ps_last' = [op |-> op, arg |-> arg, tell |-> PullBytesStream_tell(PullState),
                 r |-> res.r]
  /\ UNCHANGED <<ps_source, ps_start, tokVars, spVars, writerVars, readerVars, callVars, lineVars>>

\* stream.read(n)
pull_read ==
  \E n \in (-2)..MaxPlace :
    /\ PullSet(READ, <<n>>, PullBytesStream_read(ps_source, PullState, n))

\* stream.skip_whitespace()
pull_skip_whitespace ==
  /\ PullSet(SKIP_WHITESPACE, <<>>, PullBytesStream_skip_whitespace(ps_source, PullState))

\* stream[place]
pull_index ==
  \E place \in (-1)..MaxPlace :
    /\ PullSet(INDEX, <<place>>, PullBytesStream_index(ps_source, PullState, place))

\* stream[a:b]
pull_slice ==
  \E a, b \in 0..MaxPlace :
    /\ PullSet(SLICE, <<a, b>>, PullBytesStream_slice(ps_source, PullState, a, b))

\* len(stream)
pull_len ==
  /\ PullSet(LEN, <<>>, PullBytesStream_len(ps_source, PullState))

NextPull == pull_read \/ pull_skip_whitespace \/ pull_index \/ pull_slice \/ pull_len

SpecPull == InitPull /\ [][NextPull]_vars

(* ------------------------------------------------------------------ *)
(* PDFLineReader: successive readline() calls on one file, from its    *)
(* start.  readline reads the file in chunks, so the files put their   *)
(* end-of-line markers at the start of the file and around the end of  *)
(* the first chunk.                                                    *)

MaxTail == 3

\* chunk_size of PDFLineReader.readline
CHUNK_SIZE == 1024

\* n bytes that are no end-of-line marker
Padding(n) == [i \in 1..n |-> "a"]

LineFiles ==
  {Padding(n) \o t :
     n \in {0, CHUNK_SIZE - 2, CHUNK_SIZE - 1}, t \in SeqsUpTo({"a", CR, LF}, MaxTail)}

InitLine ==
  /\ IdleTok
  /\ IdleStream
  /\ IdleWriter
  /\ IdleReader
  /\ IdleCall
  /\ IdlePullBytesStream
  /\ lr_file \in LineFiles
  /\ lr_pos = 0
  /\ lr_prev = 0
  /\ lr_lines = <<>>

\* PDFLineReader.readline, until it has returned the empty line of the end
\* of the file
line_readline ==
  /\ IF lr_lines = <<>> THEN TRUE ELSE Last(lr_lines) # <<>>
  /\ LET data == readline(lr_file, lr_pos)
     IN /\ lr_lines' = Append(lr_lines, data)
        /\ lr_prev' = lr_pos
        /\ lr_pos' = lr_pos + Len(data)
  /\ UNCHANGED <<lr_file, tokVars, spVars, writerVars, readerVars, callVars, streamVars>>

NextLine == line_readline

SpecLine == InitLine /\ [][NextLine]_vars

(* ------------------------------------------------------------------ *)
(* Claims about the tokenizer.                                         *)

\* C1: for every well-formed input made of nested arrays and dictionaries
\* (empty containers included), the tokenizer ends normally having yielded
\* exactly the nested value written in the input: each closed container is
\* passed to the enclosing consumer and no element is lost.
C1_NestedValueYielded ==
  (tok_expect # NoObj /\ tok_st # "run") =>
    (tok_st = "done" /\ yielded = <<tok_expect>>)

\* the bytes of the form <digits> <ws> <digits> <ws> R at the start of data
\* when a delimiter byte follows them, else 0
RefFormLen(data) ==
  LET e1 == RunEnd(data, 0, DIGITS)
      e2 == RunEnd(data, e1 + 1, DIGITS)
  IN IF /\ e1 > 0
        /\ e1 < Len(data)
        /\ At(data, e1) \in WHITESPACE
        /\ e2 > e1 + 1
        /\ e2 + 2 < Len(data)
        /\ At(data, e2) \in WHITESPACE
        /\ At(data, e2 + 1) = "R"
        /\ At(data, e2 + 2) \in DELIMS
     THEN e2 + 2
     ELSE 0

RefFormValue(data) ==
  LET e1 == RunEnd(data, 0, DIGITS)
      e2 == RunEnd(data, e1 + 1, DIGITS)
  IN PDFObjectId(ParseInt(Slice(data, 0, e1)), ParseInt(Slice(data, e1 + 1, e2)))

\* C2: when the next token has the form <digits> <digits> R followed by a
\* delimiter byte, the pass recognizes exactly the Reference (N, G), consumes
\* the bytes up to and including the R, and (outside a container) yields that
\* one Reference and no Numeric.
C2_ReferenceWins ==
  RefFormLen(tok_last.before) > 0 =>
    /\ tok_last.obj = RefFormValue(tok_last.before)
    /\ tok_last.used = RefFormLen(tok_last.before)
    /\ tok_last.depth = 0 =>
         /\ Len(yielded) = tok_last.nyield + 1
         /\ Last(yielded) = RefFormValue(tok_last.before)
         /\ pbs = Drop(tok_last.before, tok_last.used)

C2_Witness ==
  /\ RefFormLen(tok_last.before) > 0
  /\ tok_last.depth = 0
  /\ yielded = <<PDFObjectId(12, 7)>>
(* ------------------------------------------------------------------ *)
(* Claims about stream completion.                                     *)

\* the bytes of sp_data after `stream` and its end-of-line (LF or CRLF);
\* -1 when the keyword or that end-of-line is missing
BodyStart ==
  IF ~StartsWith(sp_data, STREAM_BYTES) THEN -1
  ELSE IF StartsWith(Drop(sp_data, 6), <<LF>>) THEN 7
  ELSE IF StartsWith(Drop(sp_data, 6), <<CR, LF>>) THEN 8
  ELSE -1

\* the bytes that follow the sp_length payload bytes
AfterPayload == Drop(sp_data, BodyStart + sp_length)

EnoughPayload == BodyStart >= 0 /\ Len(sp_data) >= BodyStart + sp_length

\* the end-of-line marker in front of endstream: its length, 0 when endstream
\* follows the payload at once, -1 when neither is the case
MarkerGap ==
  IF StartsWith(AfterPayload, ENDSTREAM_BYTES) THEN 0
  ELSE IF StartsWith(AfterPayload, <<LF>> \o ENDSTREAM_BYTES) THEN 1
  ELSE IF StartsWith(AfterPayload, <<CR, LF>> \o ENDSTREAM_BYTES) THEN 2
  ELSE IF StartsWith(AfterPayload, <<CR>> \o ENDSTREAM_BYTES) THEN 1
  ELSE -1

StreamCalled == sp_result # NotCalled /\ BodyStart >= 0

\* C8: StreamParser(L).parse on `stream` + LF or CRLF returns as payload
\* exactly the L bytes after that end-of-line and the byte count through the
\* end of endstream; it raises ParseError when fewer than L bytes remain or
\* when the bytes after the payload are not the endstream marker.
C8_StreamCompletion ==
  StreamCalled =>
    IF EnoughPayload /\ MarkerGap >= 0
    THEN /\ sp_result.r = "ok"
         /\ sp_result.obj = PDFRawStream(SubSeq(sp_data, BodyStart + 1, BodyStart + sp_length))
         /\ sp_result.used = BodyStart + sp_length + MarkerGap + 9
    ELSE sp_result.r = "err" /\ sp_result.e = "ParseError"

\* C10 as the specification words it: a payload that `endstream` follows
\* with no end-of-line marker between them is a format error.
C10_EolRequired ==
  (StreamCalled /\ EnoughPayload /\ MarkerGap = 0) =>
    (sp_result.r = "err" /\ sp_result.e = "ParseError")

\* the same input with an LF put between the payload and what follows it
WithEol ==
  SubSeq(sp_data, 1, BodyStart + sp_length) \o <<LF>> \o AfterPayload

\* C10: after the L payload bytes the end-of-line marker is optional:
\* `endstream` directly after the payload is handled exactly as `endstream`
\* after one end-of-line marker (same outcome, one byte less consumed); a
\* stream is only ever returned when `endstream` follows the payload directly
\* or after one marker, and every other continuation raises.
C10_EolOptional ==
  StreamCalled =>
    /\ sp_result.r = "ok" => (EnoughPayload /\ MarkerGap >= 0)
    /\ (EnoughPayload /\ MarkerGap < 0) => sp_result.r = "err"
    /\ (EnoughPayload /\ MarkerGap = 0) =>
         /\ sp_result.e # "ParseError"
         /\ sp_result.r = StreamParser(sp_kind, sp_length, WithEol).r
         /\ sp_result.obj = StreamParser(sp_kind, sp_length, WithEol).obj
         /\ sp_result.e = StreamParser(sp_kind, sp_length, WithEol).e
         /\ sp_result.r = "ok" =>
              sp_result.used + 1 = StreamParser(sp_kind, sp_length, WithEol).used

C10_Witness ==
  /\ StreamCalled
  /\ sp_kind = PULLBYTESSTREAM
  /\ sp_length = 2
  /\ MarkerGap = 0
  /\ sp_result = Ok(PDFRawStream(<<"a", LF>>), BodyStart + 11)

(* ------------------------------------------------------------------ *)
(* Claims about the document.                                          *)

Distinct(s) == \A i, j \in 1..Len(s) : i # j => s[i] # s[j]

\* a conversion was made of a writer in which every page and every auxiliary
\* object was registered once
ConvertedOnce == w_last.st # "none" /\ Distinct(w_last.pages) /\ Distinct(w_last.auxs)

\* the output of that conversion is at hand
WrittenOnce == w_out # <<>> /\ ConvertedOnce

Registered(id) == \E i \in 1..Len(w_last.auxs) : w_last.auxs[i] = id

ROOT == Name(<<"R", "o", "o", "t">>)

TYPE == Name(<<"T", "y", "p", "e">>)

Numbered(n) == [number |-> n, generation |-> 0]

\* the output read as text, apart from the program: where the last line
\* `startxref` begins, the number after it, the rows of the index
STARTXREF_LINE == <<"s", "t", "a", "r", "t", "x", "r", "e", "f", LF>>

EOF_LINES == <<LF, "%", "%", "E", "O", "F", LF>>

XREF_LINE == <<LF, "x", "r", "e", "f", LF>>

IN_USE == <<SP, "0", "0", "0", "0", "0", SP, "n", SP, LF>>

OBJ_WORD == <<SP, "0", SP, "o", "b", "j">>

StartxrefAt ==
  Greatest({i \in 0..(Len(w_out) - 10) :
              At(w_out, i) = "s" /\ Slice(w_out, i, i + 10) = STARTXREF_LINE})

StartxrefNumber == ParseInt(Slice(w_out, StartxrefAt + 10, Len(w_out) - 7))

XrefKeywords ==
  {i \in 0..(Len(w_out) - 6) : At(w_out, i) = LF /\ Slice(w_out, i, i + 6) = XREF_LINE}

\* where the rows begin in a section that begins at `at` with the header 0 n+1
RowsAt(at, n) == at + 8 + Len(FormatInt(n + 1))

RowOffset(rows, k) == ParseInt(Slice(w_out, rows + 20 * k, rows + 20 * k + 10))

IndexConsistent(at, rows, n) ==
  /\ Slice(w_out, Len(w_out) - 7, Len(w_out)) = EOF_LINES
  /\ Slice(w_out, at, at + 5) = Tail(XREF_LINE)
  /\ \A k \in 1..n :
       /\ Slice(w_out, rows + 20 * k + 10, rows + 20 * k + 20) = IN_USE
       /\ StartsWith(Drop(w_out, RowOffset(rows, k)), FormatInt(k) \o OBJ_WORD)

\* C5: when every page and auxiliary object was registered once, for every
\* object number k in 1..N the k-th in-use row of the index holds the byte
\* offset at which the text `k 0 obj` begins in the output, and the number
\* written after `startxref` is the byte offset at which `xref` begins.
C5_IndexConsistent ==
  WrittenOnce =>
    IndexConsistent(StartxrefNumber, RowsAt(StartxrefNumber, Len(w_last.objs)),
                    Len(w_last.objs))

C5_Witness ==
  /\ w_out # <<>>
  /\ w_last.pages = <<"page2", "page1">>
  /\ w_last.auxs = <<"len">>
  /\ RowOffset(RowsAt(StartxrefNumber, 6), 1) = 9
  /\ RowOffset(RowsAt(StartxrefNumber, 6), 6) > RowOffset(RowsAt(StartxrefNumber, 6), 5)

\* C6: after a conversion of a writer filled with distinct objects, the
\* catalog has number 1, the page tree 2, the P pages 3..P+2 in add_page
\* order, the auxiliary objects the next numbers in add_pdf_object order, and
\* the info object the last number N; every generation is 0.
C6_NumberingOrder ==
  ConvertedOnce =>
    /\ obj_ids[CATALOG] = Numbered(1)
    /\ obj_ids[TREE] = Numbered(2)
    /\ \A i \in 1..Len(w_last.pages) : obj_ids[w_last.pages[i]] = Numbered(2 + i)
    /\ \A j \in 1..Len(w_last.auxs) :
         obj_ids[w_last.auxs[j]] = Numbered(2 + Len(w_last.pages) + j)
    /\ obj_ids[INFO] = Numbered(Len(w_last.pages) + Len(w_last.auxs) + 3)
    /\ Len(w_last.objs) = Len(w_last.pages) + Len(w_last.auxs) + 3

C6_Witness ==
  /\ w_last.st = "ok"
  /\ w_last.pages = <<"page1">>
  /\ w_last.auxs = <<"istream", "len">>
  /\ w_info # <<"N", "o", "n", "e">>
  /\ obj_ids["len"] = Numbered(5)
  /\ obj_ids[INFO] = Numbered(6)

\* the number of objects of the last conversion
EmittedObjects == Cardinality({w_last.objs[i] : i \in 1..Len(w_last.objs)})

TrailerHead(n) ==
  <<"t", "r", "a", "i", "l", "e", "r", LF, "<", "<", "/", "S", "i", "z", "e", SP>> \o FormatInt(n + 1)
    \o <<SP, "/", "R", "o", "o", "t", SP>> \o FormatInt(obj_ids[CATALOG].number)
    \o <<SP, "0", SP, "R", SP, "/", "I", "n", "f", "o", SP>> \o FormatInt(obj_ids[INFO].number)
    \o <<SP, "0", SP, "R", SP, "/", "I", "D", SP, "[">>

XrefAndTrailer(at, rows, n) ==
  /\ Cardinality(XrefKeywords) = 1
  /\ XrefKeywords = {at - 1}
  /\ Slice(w_out, at + 5, rows) = <<"0", SP>> \o FormatInt(n + 1) \o <<LF>>
  /\ Slice(w_out, rows + 10, rows + 20) = <<SP, "6", "5", "5", "3", "5", SP, "f", SP, LF>>
  /\ \A k \in 1..n : Slice(w_out, rows + 20 * k + 10, rows + 20 * k + 20) = IN_USE
  /\ StartsWith(Drop(w_out, rows + 20 * (n + 1)), TrailerHead(n))

C3_CycleTerminates ==
  (r_st = "open" /\ ConvertedOnce /\ w_last.pages # <<>> /\ r_call = <<2, 0>>) =>
    /\ r_result.r = "ok"
    /\ r_result.obj[1] = "dict"

\* C4: opening the bytes of a writer with the reader succeeds, object_lookup
\* has exactly N entries, N the number of objects the writer emitted, and
\* resolving the Root reference of the trailer with full_object_at returns the
\* catalog dictionary (Type = Catalog).
C4_RoundTrip ==
  (WrittenOnce /\ r_st # "closed") =>
    /\ r_st = "open"
    /\ Cardinality(DOMAIN obj_lookup) = Len(w_last.objs)
    /\ HasKey(trailer, ROOT)
    /\ Lookup(trailer, ROOT)[1] = "ref"
    /\ r_call = <<Lookup(trailer, ROOT)[2], Lookup(trailer, ROOT)[3]>> =>
         /\ r_result.r = "ok"
         /\ r_result.obj[1] = "dict"
         /\ HasKey(r_result.obj, TYPE)
         /\ Lookup(r_result.obj, TYPE) = Name(<<"C", "a", "t", "a", "l", "o", "g">>)

\* C9: for an object that is a dictionary followed by `stream` whose Length
\* is a Reference to a Numeric L listed in the index, full_object_at returns a
\* Stream whose dictionary has Length = L and whose payload is the L bytes
\* after the end-of-line of `stream`.
C9_IndirectLength ==
  (r_st = "open" /\ ConvertedOnce /\ Registered("len") /\ Registered("istream")
     /\ r_call = <<obj_ids["istream"].number, 0>>) =>
    r_result = Val(PDFStream(<< <<LENGTH, Num(Len(payload))>> >>, payload))

(* ------------------------------------------------------------------ *)
(* Claims about single calls.                                          *)

Called(op) == c_op = op /\ c_result # NotCalled

\* C12: for every Name without the byte 0 (bytes that need #XX escaping and
\* the byte # included), ParseName on the serialized form gives back the
\* Name and consumes the whole form.
C12_NameRoundTrip ==
  (Called(PARSE_NAME) /\ \A i \in 1..Len(c_arg[2]) : c_arg[2][i] # NUL) =>
    c_result = Ok(c_arg, Len(ToBytes(c_arg, NoNums)))

\* C13: for every String (parentheses, backslashes, LF, CR, TAB, BS, FF and
\* bytes >= 0x80 included), StringParser on the serialized literal gives
\* back the String and consumes through the closing parenthesis.
C13_StringRoundTrip ==
  Called(STRING_PARSER) =>
    c_result = Ok(c_arg[2], Len(ToBytes(c_arg[2], NoNums)))

C13_Witness ==
  /\ Called(STRING_PARSER)
  /\ c_arg = <<PULLBYTESSTREAM, PDFString(<<BACKSLASH, LF, ")">>)>>
  /\ c_result = Ok(c_arg[2], 8)

\* the run of numeric characters data starts with
NumericRun(data) == Slice(data, 0, RunEnd(data, 0, NUMERICS))

\* C17: a numeric run followed by a byte that is neither a delimiter nor the
\* end of the input is a ParseError, and so is a run with two dots;
\* NumericParser returns no match that stops inside such an input.
C17_NoPartialNumeric ==
  Called(NUMERIC_PARSER) =>
    LET run == NumericRun(c_arg) IN
    /\ (run # <<>> /\ Len(run) < Len(c_arg) /\ c_arg[Len(run) + 1] \notin DELIMS)
         => c_result = Raise("ParseError")
    /\ (CountOf(run, ".") >= 2) => c_result = Raise("ParseError")
    /\ c_result.r = "ok" =>
         /\ c_result.used = Len(run)
         /\ Len(run) = Len(c_arg) \/ c_arg[Len(run) + 1] \in DELIMS

C17_Witness ==
  /\ Called(NUMERIC_PARSER)
  /\ c_arg = <<"1", "5", "a">>
  /\ c_result = Raise("ParseError")

(* ------------------------------------------------------------------ *)
(* Claims about dictionaries in the tokenizer.                         *)

TokEnded == tok_st # "run" /\ tok_st # "idle"

\* C11: for every Dictionary with Name keys and scalar values (Boolean,
\* Numeric, String, Name, Null, Reference), the tokenizer handed its
\* serialized bytes yields exactly one value, equal to the Dictionary.
C11_DictionaryRoundTrip ==
  (tok_expect \in ScalarDicts /\ TokEnded) =>
    (tok_st = "done" /\ yielded = <<tok_expect>>)

\* C18: a dictionary closed by `>>` after an odd number of values is an
\* error: the tokenizer does not end normally and yields no dictionary built
\* without the dangling key.
C18_OddDictionaryRejected ==
  (tok_input \in OddDictTexts /\ TokEnded) =>
    (tok_st # "done" /\ yielded = <<>>)

(* ------------------------------------------------------------------ *)
(* Claims about the identity of indirect objects.                      *)

\* the indirect objects a value refers to
RECURSIVE RefsOf(_)
RefsOf(v) ==
  CASE v[1] = "obj" -> {v[2]}
    [] v[1] = "arr" -> UNION {RefsOf(v[2][i]) : i \in 1..Len(v[2])}
    [] v[1] \in {"dict", "stream"} -> UNION {RefsOf(v[2][i][2]) : i \in 1..Len(v[2])}
    [] OTHER -> {}

\* the indirect objects the data of the last conversion refer to
LastRefs ==
  UNION {RefsOf(DataOf(w_last.objs[i], w_last.pages, payload, <<>>,
                       (CHOOSE x \in Surroundings : TRUE).now)) :
           i \in 1..Len(w_last.objs)}

Unassigned(id) == obj_ids[id].number < 0 \/ obj_ids[id].generation < 0

\* the bytes `N G R`
NGR(id) ==
  FormatInt(obj_ids[id].number) \o <<SP>> \o FormatInt(obj_ids[id].generation)
    \o <<SP, "R">>

Holds(data, pattern) ==
  \E i \in 0..(Len(data) - Len(pattern)) :
    At(data, i) = pattern[1] /\ Slice(data, i, i + Len(pattern)) = pattern

\* C14: converting to bytes a reference to an indirect object whose number
\* or generation is unassigned raises an error, and with both assigned it
\* gives `N G R`: a conversion of the writer ends with ValueError and no
\* output exactly when some object it writes refers to an object without
\* identity, and every reference in an output names an assigned identity.
C14_NoUnassignedReference ==
  (w_last.st # "none") =>
    /\ (w_last.st = "ValueError") <=> (\E id \in LastRefs : Unassigned(id))
    /\ (w_last.st = "ValueError") => w_out = <<>>
    /\ (w_out # <<>>) =>
         \A id \in LastRefs : ~Unassigned(id) /\ Holds(w_out, NGR(id))

C14_Witness ==
  /\ w_last.st = "ok"
  /\ w_last.pages = <<"page2">>
  /\ w_last.auxs = <<"len">>
  /\ w_out # <<>>
  /\ LastRefs = {TREE, "page2", "len"}
  /\ NGR("len") = <<"4", SP, "0", SP, "R">>

(* ------------------------------------------------------------------ *)
(* Claims about the cross-reference section and missing objects.       *)

\* the numbers of the rows of type n of a list of subsections
InUseNumbers(sections) ==
  {sections[i].start + r - 1 :
     <<i, r>> \in {p \in (1..Len(sections)) \X (1..MaxRows) :
                    /\ p[2] <= Len(sections[p[1]].types)
                    /\ sections[p[1]].types[p[2]] = IN_USE_ROW}}

FileOpened == c_op = PDF_FILE /\ r_st # "closed"

\* C15: parsing a cross-reference section of one or more subsections
\* `start count` gives a map with exactly the rows of type n, the row r of a
\* subsection keyed by (start + r, generation) and mapped to its offset; the
\* rows of type f are absent.
C15_XrefSubsections ==
  FileOpened =>
    /\ r_st = "open"
    /\ DOMAIN obj_lookup = {<<k, GenerationOf(k)>> : k \in InUseNumbers(c_arg.sections)}
    /\ \A k \in InUseNumbers(c_arg.sections) : obj_lookup[<<k, GenerationOf(k)>>] = OffsetOf(k)

C15_Witness ==
  /\ FileOpened
  /\ c_arg.sections = <<[start |-> 0, types |-> <<FREE_ROW_TYPE, IN_USE_ROW>>],
                        [start |-> 3, types |-> <<IN_USE_ROW, FREE_ROW_TYPE>>]>>
  /\ DOMAIN obj_lookup = {<<1, 0>>, <<3, 1>>}

\* what a reference to the object numbered k resolves to
ResolvedOr(k, value) == IF <<k, GenerationOf(k)>> \in DOMAIN obj_lookup THEN value ELSE PDFNull

\* C16: when full_object_at resolves a value, a Reference that the index
\* does not list becomes Null; it is no error, and the other references of
\* the value are still resolved.
C16_MissingReferenceIsNull ==
  (FileOpened /\ r_st = "open" /\ r_call = <<1, 0>>) =>
    r_result = Val(PDFArray(<<PDFNull, ResolvedOr(2, Str(<<"a">>)), ResolvedOr(3, Num(7))>>))

C16_Witness ==
  /\ FileOpened
  /\ r_call = <<1, 0>>
  /\ DOMAIN obj_lookup = {<<1, 0>>, <<3, 1>>}
  /\ r_result = Val(PDFArray(<<PDFNull, PDFNull, Num(7)>>))

(* ------------------------------------------------------------------ *)
(* Claims about the image dictionary.                                  *)

\* C20: ImageDictionary.object() puts the filter parameters handed to
\* add_filtered_data into a DecodeParms sub-dictionary and not among the
\* top-level keys, next to Filter and to Length, the byte count of the
\* payload, which is stored as it is.
C20_DecodeParms ==
  (Called(IMAGE_OBJECT) /\ c_arg.params.given /\ c_arg.params.items # <<>>) =>
    /\ HasKey(c_result.obj, DECODE_PARMS)
    /\ Lookup(c_result.obj, DECODE_PARMS) = PDFDictionary(c_arg.params.items)
    /\ \A i \in 1..Len(c_arg.params.items) : ~HasKey(c_result.obj, c_arg.params.items[i][1])
    /\ (c_arg.filter # NoObj) =>
         (HasKey(c_result.obj, FILTER) /\ Lookup(c_result.obj, FILTER) = Name(c_arg.filter))
    /\ HasKey(c_result.obj, LENGTH)
    /\ Lookup(c_result.obj, LENGTH) = Num(Len(c_arg.data))
    /\ c_result.obj[3] = c_arg.data

(* ------------------------------------------------------------------ *)
(* Claims about PullBytesStream.                                       *)

Tell == PullBytesStream_tell(PullState)

\* what len(stream) returns in the current state
LenNow == PullBytesStream_len(ps_source, PullState).r.obj

\* what stream.read() returns in the current state
RestNow == PullBytesStream_read(ps_source, PullState, -1).r.obj

\* C19: lookahead (indexing, slicing, len()) changes neither tell() nor the
\* bytes a later read() returns; tell() is the start offset plus the number
\* of bytes read() and skip_whitespace() consumed; len() is the number of
\* source bytes not yet consumed; the results of read() joined in order are
\* a prefix of the source.
C19_CursorInvariant ==
  /\ Tell = ps_start + Len(ps_read)
  /\ LenNow = Len(ps_source) - ps_start - Len(ps_read)
  /\ ps_read = Slice(ps_source, ps_start, ps_start + Len(ps_read))
  /\ RestNow = Drop(ps_source, ps_start + Len(ps_read))
  /\ (ps_last # <<>> /\ ps_last.op \in {INDEX, SLICE, LEN}) => ps_last.tell = Tell

C19_Witness ==
  /\ ps_source = <<SP, SP, "a">>
  /\ ps_read = <<SP, SP>>
  /\ ps_buffer = <<"a">>
  /\ ps_last # <<>>
  /\ ps_last.op = SLICE
  /\ ps_last.r = Ok(<<"a">>, 0)
  /\ Tell = 2

\* C21: every (name, value) entry added through add_entry is an entry of the
\* dictionary returned by InfoObject.object(), next to Title and CreationDate.
C21_EntriesWritten ==
  (Called(INFO_OBJECT) /\ c_arg.entries # <<>>) =>
    /\ HasKey(c_result.obj, Name(<<"T", "i", "t", "l", "e">>))
    /\ \A i \in 1..Len(c_arg.entries) :
         /\ HasKey(c_result.obj, Name(c_arg.entries[i][1]))
         /\ \E j \in i..Len(c_arg.entries) :
              /\ c_arg.entries[j][1] = c_arg.entries[i][1]
              /\ Lookup(c_result.obj, Name(c_arg.entries[i][1])) = c_arg.entries[j][2]

(* ------------------------------------------------------------------ *)
(* Claims about the end of the tokenizer's iteration.                  *)

\* C22: iterating the tokenizer over a finite input ends, yields or raises
\* after finitely many steps: no pass of __iter__ repeats for ever, also when
\* no recognizer matches while a container is open whose closing delimiter is
\* not next.
C22_Terminates == tok_st # "hang"

\* C28: when the input is exhausted while an array or dictionary is still
\* open, the iteration raises: it never ends normally with a container left
\* open and dropped.
C28_TruncationRaises == (tok_st = "done" /\ pbs = <<>>) => consumers = <<>>

(* ------------------------------------------------------------------ *)
(* Claims about the values full_object_at returns.                     *)

\* the References left in a value, at any depth
RECURSIVE ReferencesIn(_)
ReferencesIn(v) ==
  CASE v[1] = "ref" -> {<<v[2], v[3]>>}
    [] v[1] = "arr" -> UNION {ReferencesIn(v[2][i]) : i \in 1..Len(v[2])}
    [] v[1] \in {"dict", "stream"} -> UNION {ReferencesIn(v[2][i][2]) : i \in 1..Len(v[2])}
    [] OTHER -> {}

\* the References written in the objects of the file that resolving the
\* object ref reaches
ReachedFrom(ref) ==
  CASE ref = <<1, 0>> -> {<<9, 1>>, <<2, 0>>, <<3, 1>>}
    [] ref = <<4, 0>> -> {<<2, 0>>}
    [] OTHER -> {}

\* C23: when every Reference that resolving an object reaches has a
\* cross-reference entry (and the graph has no cycle), the value returned by
\* full_object_at holds no Reference at any depth, also when the object's own
\* value is a single Reference.
C23_MaterializedTree ==
  (FileOpened /\ r_call # <<>> /\ r_result.r = "ok"
     /\ ReachedFrom(r_call) \subseteq DOMAIN obj_lookup) =>
    ReferencesIn(r_result.obj) = {}

(* ------------------------------------------------------------------ *)
(* Claims about the Reference recognizer.                              *)

\* C24: ParseObjectId.parse returns None, and raises nothing, for every input
\* that is not a digit run, one whitespace byte, a digit run, one whitespace
\* byte, R and a delimiter; two digit runs separated by several whitespace
\* bytes are such an input.
C24_NoMatchNeverRaises ==
  (Called(PARSE_OBJECT_ID) /\ RefFormLen(c_arg) = 0) => c_result = None

(* ------------------------------------------------------------------ *)
(* Claims about the numbers the writer gives.                          *)

\* C25: once a conversion has given a number to a page or an auxiliary
\* object of the writer, no later add_page, add_pdf_object or conversion
\* changes the number or the generation of that object.
C25_WriteOnce ==
  [][\A id \in PageIds \cup AuxIds :
       obj_ids[id] # Unnumbered => obj_ids'[id] = obj_ids[id]]_vars

\* the output read as text: the places where an object block `k 0 obj` begins
\* (at the start of a line), and the number k written there
BlockStarts ==
  {i \in 1..(Len(w_out) - 1) :
     /\ At(w_out, i - 1) = LF
     /\ RunEnd(w_out, i, DIGITS) > i
     /\ StartsWith(Drop(w_out, RunEnd(w_out, i, DIGITS)), OBJ_WORD \o <<LF>>)}

BlockNumber(i) == ParseInt(Slice(w_out, i, RunEnd(w_out, i, DIGITS)))

\* the rows of type n of the index
InUseRows ==
  {i \in StartxrefNumber..(Len(w_out) - 10) :
     At(w_out, i) = SP /\ Slice(w_out, i, i + 10) = IN_USE}

\* C26: whatever pages and objects were registered, the same one several
\* times included, the object blocks of the output carry pairwise distinct
\* numbers that are exactly 1..N, and the index has as many in-use rows as
\* there are object blocks.
C26_BlocksNumberedOnce ==
  w_out # <<>> =>
    /\ \A i, j \in BlockStarts : i # j => BlockNumber(i) # BlockNumber(j)
    /\ {BlockNumber(i) : i \in BlockStarts} = 1..Cardinality(BlockStarts)
    /\ Cardinality(InUseRows) = Cardinality(BlockStarts)

(* ------------------------------------------------------------------ *)
(* Claims about streams of length 0.                                   *)

\* C27: read_stream with the length 0 on `stream`, an end-of-line marker and
\* `endstream` returns a stream with an empty payload and does not raise.
C27_EmptyStream ==
  (/\ sp_result # NotCalled
   /\ sp_kind = PULLBYTESSTREAM
   /\ sp_length = 0
   /\ sp_data \in {STREAM_BYTES \o <<LF>> \o ENDSTREAM_BYTES,
                   STREAM_BYTES \o <<CR, LF>> \o ENDSTREAM_BYTES}) =>
    /\ sp_result.r = "ok"
    /\ sp_result.obj = PDFRawStream(<<>>)

(* ------------------------------------------------------------------ *)
(* Claims about PDFLineReader.                                         *)

\* the places of f right after an end-of-line marker: after an LF, and after
\* a CR that no LF follows
MarkerEnds(f) ==
  {e \in 1..Len(f) :
     \/ At(f, e - 1) = LF
     \/ At(f, e - 1) = CR /\ (e = Len(f) \/ At(f, e) # LF)}

\* where the line that begins at pos ends: after the next marker, or at the
\* end of the file
NextMarkerEnd(f, pos) ==
  IF {e \in MarkerEnds(f) : e > pos} = {} THEN Len(f)
  ELSE Least({e \in MarkerEnds(f) : e > pos})

\* C29: successive readline() calls split the file after each end-of-line
\* marker (LF, CR, or CR LF as one marker) wherever it falls; each call moves
\* the position on by the length of the line it returns, the lines returned
\* so far joined are the file up to the position, and at the end of the file
\* readline returns the empty line.
C29_LinesSplitAtMarkers ==
  lr_lines # <<>> =>
    /\ lr_pos = NextMarkerEnd(lr_file, lr_prev)
    /\ Last(lr_lines) = Slice(lr_file, lr_prev, lr_pos)
    /\ Concat(lr_lines) = Slice(lr_file, 0, lr_pos)
    /\ (lr_prev = Len(lr_file) => Last(lr_lines) = <<>>)

(* ------------------------------------------------------------------ *)
(* Claims about the search for the keywords of the tail.               *)

\* the places i where data[i : i + len(pattern)] is pattern and the byte right
\* after it is LF or CR
FollowedByEol(data, pattern) ==
  {i \in 0..(Len(data) - Len(pattern)) :
     /\ Slice(data, i, i + Len(pattern)) = pattern
     /\ i + Len(pattern) < Len(data)
     /\ At(data, i + Len(pattern)) \in {LF, CR}}

\* C30: find_last_occurance(data, pattern) returns the largest index at which
\* pattern occurs in data with LF or CR right after it, and -1 when there is
\* none: an occurrence at the very end of data or before another byte does
\* not count.
C30_LastOccurrence ==
  Called(FIND_LAST_OCCURANCE) =>
    c_result = Ok(PyInt(IF FollowedByEol(c_arg.data, c_arg.pattern) = {} THEN -1
                      ELSE Greatest(FollowedByEol(c_arg.data, c_arg.pattern))), 0)

C30_Witness ==
  /\ Called(FIND_LAST_OCCURANCE)
  /\ c_arg = [data |-> <<"a", "a", LF, "a">>, pattern |-> <<"a">>]
  /\ c_result = Ok(PyInt(1), 0)

====
